---------------------------- MODULE Spec2Model ----------------------------
(***************************************************************************)
(* Model of the codebase-documentation pipeline:                           *)
(*   - the structural analyzer  (src/utils/analyze_file_structure.py),     *)
(*   - the nine pipeline nodes  (src/nodes/*.py) wired by src/flow.py.     *)
(*                                                                         *)
(* Strings are sequences of one-character strings, so that the path and    *)
(* module-name conversions are computed, character by character, the way   *)
(* the Python code computes them.  A Python dict is a sequence of          *)
(* <<key, value>> pairs in insertion order.  A Python set is a TLA+ set;   *)
(* where the code iterates over a set of strings, the iteration order is   *)
(* the order of the interpreter's string hashes (randomised per process),  *)
(* modelled by a sequence `order` that lists the possible elements.        *)
(***************************************************************************)
EXTENDS Integers, Sequences, FiniteSets, TLC

VARIABLES
    \* ---- structural analyzer (SpecAnalyze) ----
    files,          \* input mapping path -> content, as a sequence of pairs
    structure1,     \* result of a first  run of analyze_file_structure
    structure2,     \* result of a second run of analyze_file_structure
    \* ---- core-module ranking on an arbitrary graph (SpecCore) ----
    dependencies,   \* input dependency graph (dict file -> set of files)
    core_modules,   \* result of identify_core_modules
    \* ---- the pipeline run (Spec) ----
    shared,         \* the shared context: key -> <<>> (absent) or <<value>>
    pc,             \* the node the flow is at, or "done" / "aborted"
    step,           \* where the node's _run is: "prep", "exec" or "post"
    cur_retry,      \* the node's cur_retry for its next call of exec
    prep_res,       \* <<>> or <<what prep returned>>
    exec_res,       \* <<>> or <<what _exec returned>>
    batch,          \* WriteChapters' fan-out: item under work, result slots
    hist            \* history: attempts, outcomes, stages started, responses

analyzerVars == <<files, structure1, structure2>>
coreVars     == <<dependencies, core_modules>>
flowVars     == <<shared, pc, step, cur_retry, prep_res, exec_res, batch, hist>>
vars         == <<analyzerVars, coreVars, flowVars>>

\* No pipeline run takes place.
NoFlowRun ==
    /\ pc = "idle" /\ step = "idle" /\ cur_retry = 0
    /\ shared = <<>> /\ prep_res = <<>> /\ exec_res = <<>>
    /\ batch = <<>> /\ hist = <<>>

\* Python's None; also the value of a result that has not been produced yet.
None == "None"

----------------------------------------------------------------------------
(* Sequences, dicts, strings                                               *)

Range(s) == { s[i] : i \in DOMAIN s }

\* The sequences of length n over S without repetition.
RECURSIVE InjSeqs(_, _)
InjSeqs(S, n) ==
    IF n = 0 THEN { <<>> }
    ELSE UNION { { Append(s, x) : x \in S \ Range(s) } : s \in InjSeqs(S, n - 1) }

\* The permutations of the finite set S, as sequences.
Perms(S) == InjSeqs(S, Cardinality(S))

\* dict: sequence of <<key, value>> pairs, keys distinct, in insertion order.
DictKeys(d)   == [i \in DOMAIN d |-> d[i][1]]
HasKey(d, k)  == \E i \in DOMAIN d : d[i][1] = k
DictGet(d, k) == d[CHOOSE i \in DOMAIN d : d[i][1] = k][2]
DictPut(d, k, v) ==
    IF HasKey(d, k)
    THEN [i \in DOMAIN d |-> IF d[i][1] = k THEN <<k, v>> ELSE d[i]]
    ELSE Append(d, <<k, v>>)

\* Iteration over a Python set S of strings: the elements of S in the order
\* `order` (a sequence without repetition that contains every element of S).
RECURSIVE SetIter(_, _)
SetIter(S, order) ==
    IF order = <<>> THEN <<>>
    ELSE (IF Head(order) \in S THEN <<Head(order)>> ELSE <<>>)
         \o SetIter(S, Tail(order))

\* str.replace(old, new): leftmost non-overlapping occurrences, old non-empty.
RECURSIVE Replace(_, _, _)
Replace(s, old, new) ==
    IF Len(s) < Len(old) THEN s
    ELSE IF SubSeq(s, 1, Len(old)) = old
         THEN new \o Replace(SubSeq(s, Len(old) + 1, Len(s)), old, new)
         ELSE <<Head(s)>> \o Replace(Tail(s), old, new)

\* str.rfind(c) + 1 for a one-character c: 0 when c does not occur.
RFind(s, c) ==
    LET hits == { i \in DOMAIN s : s[i] = c }
    IN  IF hits = {} THEN 0 ELSE CHOOSE i \in hits : \A j \in hits : j <= i

\* `pat in s` for strings.
IsSubstring(pat, s) ==
    \E i \in 1..(Len(s) - Len(pat) + 1) : SubSeq(s, i, i + Len(pat) - 1) = pat

LowerChar(c) ==
    CASE c = "A" -> "a" [] c = "M" -> "m" [] c = "T" -> "t" [] OTHER -> c

\* str.lower() on the model's alphabet.
Lower(s) == [i \in DOMAIN s |-> LowerChar(s[i])]

\* os.path.basename (POSIX): what follows the last "/".
basename(p) == SubSeq(p, RFind(p, "/") + 1, Len(p))

\* os.path.dirname (POSIX): what precedes the last "/" ("" when there is none).
dirname(p) == SubSeq(p, 1, RFind(p, "/") - 1)

\* os.path.splitext: <<root, ext>>; the extension starts at the last dot of
\* the last path component, unless only dots precede it in that component.
splitext(p) ==
    LET sep == RFind(p, "/")
        dot == RFind(p, ".")
    IN  IF dot > sep /\ \E k \in (sep + 1)..(dot - 1) : p[k] # "."
        THEN <<SubSeq(p, 1, dot - 1), SubSeq(p, dot, Len(p))>>
        ELSE <<p, <<>> >>

\* len(path.split('/')): one more than the number of "/" in the path.
SplitCount(p) == Cardinality({ i \in DOMAIN p : p[i] = "/" }) + 1

----------------------------------------------------------------------------
(* src/utils/analyze_file_structure.py                                     *)
(*                                                                         *)
(* A file's content is the record                                          *)
(*   [size    : len(content),                                              *)
(*    imports : the module names the extractor of the file's language      *)
(*              finds in it,                                               *)
(*    main    : whether the extractor of the file's language finds its     *)
(*              main marker in it].                                        *)
(* exports, functions, classes, is_config and file_types are computed by   *)
(* the code but read by no other part of the analyzer: they are left out.  *)

\* lang_map.get(ext, 'unknown')
detect_language(file_path) ==
    LET ext == Lower(splitext(file_path)[2])
    IN  CASE ext \in { <<".","p","y">>, <<".","p","y","i">>, <<".","p","y","x">> }
               -> "python"
          [] ext \in { <<".","j","s">>, <<".","j","s","x">> }  -> "javascript"
          [] ext \in { <<".","t","s">>, <<".","t","s","x">> }  -> "typescript"
          [] ext = <<".","g","o">>                             -> "go"
          [] ext = <<".","j","a","v","a">>                     -> "java"
          [] ext \in { <<".","c">>, <<".","h">> }              -> "c"
          [] ext \in { <<".","c","p","p">>, <<".","c","c">>, <<".","c","x","x">> }
               -> "cpp"
          [] ext = <<".","r","s">>                             -> "rust"
          [] ext = <<".","r","b">>                             -> "ruby"
          [] ext = <<".","p","h","p">>                         -> "php"
          [] ext = <<".","s","w","i","f","t">>                 -> "swift"
          [] ext = <<".","k","t">>                             -> "kotlin"
          [] OTHER                                             -> "unknown"

\* The languages whose branch of analyze_single_file records imports.
ImportLanguages ==
    { "python", "javascript", "typescript", "go", "java", "c", "cpp" }

\* The languages whose analyzer sets has_main (the JavaScript/TypeScript and
\* the Java analyzers never do).
MainLanguages == { "python", "go", "c", "cpp" }

analyze_single_file(file_path, content) ==
    LET language == detect_language(file_path)
    IN  [ size     |-> content.size,
          imports  |-> IF language \in ImportLanguages
                       THEN content.imports ELSE {},
          has_main |-> language \in MainLanguages /\ content.main,
          language |-> language ]

\* Line 239: the path with its separators turned into dots and every ".py"
\* removed.
ModuleName(file_path) ==
    Replace(Replace(Replace(file_path, <<"/">>, <<".">>), <<"\\">>, <<".">>),
            <<".","p","y">>, <<>>)

\* Line 243: the basename without its extension.
Stem(file_path) == splitext(basename(file_path))[1]

\* Mutant: lines 242-244 are missing, only the dotted path form is mapped.
RECURSIVE module_to_file_no_basename(_)
module_to_file_no_basename(all_files) ==
    IF all_files = <<>> THEN <<>>
    ELSE LET n == Len(all_files)
         IN  DictPut(module_to_file_no_basename(SubSeq(all_files, 1, n - 1)),
                     ModuleName(all_files[n]), all_files[n])

\* Mutant: a name already mapped keeps its first file.
RECURSIVE module_to_file_first_wins(_)
module_to_file_first_wins(all_files) ==
    IF all_files = <<>> THEN <<>>
    ELSE LET n         == Len(all_files)
             file_path == all_files[n]
             before    == module_to_file_first_wins(SubSeq(all_files, 1, n - 1))
             named     == IF HasKey(before, ModuleName(file_path)) THEN before
                          ELSE DictPut(before, ModuleName(file_path), file_path)
         IN  IF HasKey(named, Stem(file_path)) THEN named
             ELSE DictPut(named, Stem(file_path), file_path)

\* Lines 236-244: the mapping from module names to file paths; a later file
\* overwrites an earlier one under the same name.
RECURSIVE module_to_file(_)
module_to_file(all_files) ==
    IF all_files = <<>> THEN <<>>
    ELSE LET n         == Len(all_files)
             file_path == all_files[n]
             before    == module_to_file(SubSeq(all_files, 1, n - 1))
         IN  DictPut(DictPut(before, ModuleName(file_path), file_path),
                     Stem(file_path), file_path)

\* Mutant: line 252's self-reference test is missing.
ResolveImports_no_self_test(m2f, file_path, file_imports) ==
    { DictGet(m2f, imported_module) :
        imported_module \in { i \in file_imports : HasKey(m2f, i) } }

\* Lines 248-253 for one file: the targets its imports resolve to.  The order
\* in which the set file_imports is iterated does not change the set built.
ResolveImports(m2f, file_path, file_imports) ==
    { DictGet(m2f, imported_module) :
        imported_module \in
            { i \in file_imports : HasKey(m2f, i) /\ DictGet(m2f, i) # file_path } }

\* dependencies is a defaultdict(set): a key exists once an edge was added.
RECURSIVE BuildDependencies(_, _)
BuildDependencies(m2f, imports) ==
    IF imports = <<>> THEN <<>>
    ELSE LET n      == Len(imports)
             before == BuildDependencies(m2f, SubSeq(imports, 1, n - 1))
             deps   == ResolveImports(m2f, imports[n][1], imports[n][2])
         IN  IF deps = {} THEN before
             ELSE Append(before, <<imports[n][1], deps>>)

build_dependency_graph(imports, all_files) ==
    BuildDependencies(module_to_file(all_files), imports)

\* Lines 281-285: dependents[dep] += 1 over every edge, keys in first-seen order.
RECURSIVE CountDeps(_, _)
CountDeps(dependents, deps) ==
    IF deps = <<>> THEN dependents
    ELSE LET dep == Head(deps)
             old == IF HasKey(dependents, dep) THEN DictGet(dependents, dep) ELSE 0
         IN  CountDeps(DictPut(dependents, dep, old + 1), Tail(deps))

RECURSIVE Dependents(_, _)
Dependents(deps_dict, order) ==
    IF deps_dict = <<>> THEN <<>>
    ELSE LET n == Len(deps_dict)
         IN  CountDeps(Dependents(SubSeq(deps_dict, 1, n - 1), order),
                       SetIter(deps_dict[n][2], order))

\* Insert item into a list sorted by non-increasing count, after every entry
\* whose count is not smaller: the stable order of sorted(..., reverse=True).
RECURSIVE InsertByCount(_, _)
InsertByCount(sorted, item) ==
    IF sorted = <<>> THEN <<item>>
    ELSE IF Head(sorted)[2] >= item[2]
         THEN <<Head(sorted)>> \o InsertByCount(Tail(sorted), item)
         ELSE <<item>> \o sorted

RECURSIVE SortByCountDesc(_)
SortByCountDesc(items) ==
    IF items = <<>> THEN <<>>
    ELSE InsertByCount(SortByCountDesc(SubSeq(items, 1, Len(items) - 1)),
                       items[Len(items)])

\* core_modules[:10]
TopN == 10

\* Mutant: the list is cut to TopN entries before it is sorted.
identify_core_modules_cut_first(deps_dict, order) ==
    LET counted == Dependents(deps_dict, order)
    IN  SortByCountDesc(SubSeq(counted, 1,
                               IF Len(counted) < TopN THEN Len(counted) ELSE TopN))

identify_core_modules(deps_dict, order) ==
    LET ranked == SortByCountDesc(Dependents(deps_dict, order))
    IN  SubSeq(ranked, 1, IF Len(ranked) < TopN THEN Len(ranked) ELSE TopN)

\* The size above which setup.py / __init__.py count as entry points.
MinSetupSize == 100

EntryNames ==
    { <<"m","a","i","n",".","p","y">>, <<"a","p","p",".","p","y">>,
      <<"s","e","r","v","e","r",".","p","y">>, <<"i","n","d","e","x",".","j","s">>,
      <<"m","a","i","n",".","g","o">>, <<"m","a","i","n",".","j","a","v","a">> }

SetupNames ==
    { <<"s","e","t","u","p",".","p","y">>,
      <<"_","_","i","n","i","t","_","_",".","p","y">> }

\* Mutant: line 274 with >= in place of >.
IsEntryPoint_at_threshold(file_path, file_info) ==
    \/ file_info.has_main
    \/ Lower(basename(file_path)) \in EntryNames
    \/ Lower(basename(file_path)) \in SetupNames /\ file_info.size >= MinSetupSize

IsEntryPoint(file_path, file_info) ==
    \/ file_info.has_main
    \/ Lower(basename(file_path)) \in EntryNames
    \/ Lower(basename(file_path)) \in SetupNames /\ file_info.size > MinSetupSize

RECURSIVE identify_entry_points(_)
identify_entry_points(file_info) ==
    IF file_info = <<>> THEN <<>>
    ELSE LET n == Len(file_info)
         IN  identify_entry_points(SubSeq(file_info, 1, n - 1))
             \o (IF IsEntryPoint(file_info[n][1], file_info[n][2])
                 THEN <<file_info[n][1]>> ELSE <<>>)

\* A directory is "common" when it holds more than this many files.
CommonDirSize == 3

RECURSIVE Directories(_)
Directories(file_paths) ==
    IF file_paths = <<>> THEN <<>>
    ELSE LET n      == Len(file_paths)
             before == Directories(SubSeq(file_paths, 1, n - 1))
             dir    == dirname(file_paths[n])
             old    == IF HasKey(before, dir) THEN DictGet(before, dir) ELSE <<>>
         IN  IF dir = <<>> THEN before
             ELSE DictPut(before, dir, Append(old, basename(file_paths[n])))

analyze_directory_structure(file_paths) ==
    LET directories == Directories(file_paths)
        depths      == { SplitCount(file_paths[i]) : i \in DOMAIN file_paths }
    IN  [ directories |-> directories,
          depth       |-> CHOOSE d \in depths : \A e \in depths : e <= d,
          common_dirs |-> SelectSeq(DictKeys(directories),
                            LAMBDA d : Len(DictGet(directories, d)) > CommonDirSize) ]

\* More than this many directories make the tree "modular".
ModularDirs == 3

\* `d in str(directories.keys()).lower()`: the names tested for hold no quote,
\* comma or bracket, so one occurs in the printed key list exactly when it
\* occurs in one lower-cased key.
InKeys(word, directories) ==
    \E i \in DOMAIN directories : IsSubstring(word, Lower(directories[i][1]))

detect_patterns(directory_structure) ==
    LET directories == directory_structure.directories
    IN  [ mvc       |-> \E w \in { <<"m","o","d","e","l","s">>,
                                   <<"v","i","e","w","s">>,
                                   <<"c","o","n","t","r","o","l","l","e","r","s">> } :
                            InKeys(w, directories),
          layered   |-> \E w \in { <<"s","e","r","v","i","c","e">>,
                                   <<"r","e","p","o","s","i","t","o","r","y">>,
                                   <<"c","o","n","t","r","o","l","l","e","r">>,
                                   <<"e","n","t","i","t","y">> } :
                            InKeys(w, directories),
          has_tests |-> InKeys(<<"t","e","s","t">>, directories),
          modular   |-> Len(directories) > ModularDirs ]

\* Lines 34-47: file_info for every file, and imports for the files that
\* record at least one import, both in the input's insertion order.
FileInfo(fs) ==
    [i \in DOMAIN fs |-> <<fs[i][1], analyze_single_file(fs[i][1], fs[i][2])>>]

Imports(file_info) ==
    LET nonEmpty == SelectSeq(file_info, LAMBDA e : e[2].imports # {})
    IN  [i \in DOMAIN nonEmpty |-> <<nonEmpty[i][1], nonEmpty[i][2].imports>>]

\* analyze_file_structure without line 54: everything but core_modules.
StructureFacts(fs) ==
    LET file_info == FileInfo(fs)
        imports   == Imports(file_info)
        dirs      == analyze_directory_structure(DictKeys(fs))
    IN  [ file_info           |-> file_info,
          imports             |-> imports,
          dependencies        |-> build_dependency_graph(imports, DictKeys(fs)),
          entry_points        |-> identify_entry_points(file_info),
          core_modules        |-> <<>>,
          directory_structure |-> dirs,
          patterns            |-> detect_patterns(dirs) ]

\* Line 54, the one step that iterates over a set of paths.
WithCoreModules(facts, order) ==
    [facts EXCEPT !.core_modules = identify_core_modules(facts.dependencies, order)]

analyze_file_structure(fs, order) == WithCoreModules(StructureFacts(fs), order)

----------------------------------------------------------------------------
(* SpecAnalyze: analyze_file_structure applied to bounded inputs, twice    *)

P_a   == <<"a", ".", "p", "y">>                 \* a.py
P_da  == <<"d", "/", "a", ".", "p", "y">>       \* d/a.py
P_d_a == <<"d", ".", "a", ".", "p", "y">>       \* d.a.py

\* d/a.py shares the basename "a" with a.py and the dotted module name "d.a"
\* with the basename of d.a.py.
PathPool == { P_a, P_da, P_d_a }

N_a  == <<"a">>
N_da == <<"d", ".", "a">>
N_b  == <<"b">>

\* The import names found in file contents; "b" names no file of the pool.
NamePool == { N_a, N_da, N_b }

ContentPool == [ size : {10}, imports : SUBSET NamePool, main : {FALSE} ]

\* The input mappings: any number of distinct paths, in any insertion order.
PathLists == UNION { InjSeqs(PathPool, n) : n \in 1..Cardinality(PathPool) }

AnalyzerInputs ==
    UNION { { [i \in DOMAIN ps |-> <<ps[i], cs[i]>>] :
                cs \in [DOMAIN ps -> ContentPool] } : ps \in PathLists }

NoCoreRun == dependencies = <<>> /\ core_modules = <<>>

InitAnalyze ==
    /\ files \in AnalyzerInputs
    /\ structure1 = <<>>
    /\ structure2 = <<>>
    /\ NoCoreRun
    /\ NoFlowRun

\* The orders in which an interpreter process may iterate a set of the
\* input's paths.
HashOrders(fs) == Perms(Range(DictKeys(fs)))

\* A run of the analyzer (in an interpreter process of its own).
RunAnalyzer ==
    /\ structure1 = <<>>
    /\ LET facts == StructureFacts(files)
       IN  \E order \in HashOrders(files) :
              structure1' = << WithCoreModules(facts, order) >>
    /\ UNCHANGED <<files, structure2, coreVars, flowVars>>

\* The analyzer run again on the same input mapping.
RerunAnalyzer ==
    /\ structure1 # <<>>
    /\ structure2 = <<>>
    /\ LET facts == StructureFacts(files)
       IN  \E order \in HashOrders(files) :
              structure2' = << WithCoreModules(facts, order) >>
    /\ UNCHANGED <<files, structure1, coreVars, flowVars>>

NextAnalyze == RunAnalyzer \/ RerunAnalyzer

SpecAnalyze == InitAnalyze /\ [][NextAnalyze]_vars

----------------------------------------------------------------------------
(* Claims about the dependency graph (SpecAnalyze)                         *)

\* The graph of the first run, its edges and the imports it was built from.
Graph1 == structure1[1].dependencies

Edge(g, a, b) == HasKey(g, a) /\ b \in DictGet(g, a)

InputPaths == Range(DictKeys(files))

RecordedImports(path) ==
    LET fi == structure1[1].file_info
    IN  DictGet(fi, path).imports

\* The two names build_dependency_graph synthesizes for a path: the dotted
\* path form and the bare basename.
SynthNames(path) == { ModuleName(path), Stem(path) }

\* C6: the dependency graph holds no self-edge, and every edge target is a
\* path of the input file set.
C6_NoSelfEdgeTargetsInInput ==
    structure1 # <<>> =>
        \A i \in DOMAIN Graph1 :
            /\ Graph1[i][1] \notin Graph1[i][2]
            /\ Graph1[i][2] \subseteq InputPaths

\* C6 witness: a graph with an edge, built from an input in which some file
\* imports a name that resolves to the file itself.
C6_Witness ==
    /\ structure1 # <<>>
    /\ Graph1 # <<>>
    /\ \E p \in InputPaths : \E n \in RecordedImports(p) :
          LET m2f == module_to_file(DictKeys(files))
          IN  HasKey(m2f, n) /\ DictGet(m2f, n) = p

\* The premise of C7 for the ordered pair (a, b) of a 2-file input: a records
\* an import equal to a synthesized name of b, b records none matching a.
C7_Premise(a, b) ==
    /\ \E n \in RecordedImports(a) : n \in SynthNames(b)
    /\ \A n \in RecordedImports(b) : n \notin SynthNames(a)

\* C7 as stated: on a 2-file input {A, B}, in either insertion order, where A
\* imports a synthesized name of B and B imports none of A, the graph holds
\* A->B and not B->A.
C7_Original ==
    (structure1 # <<>> /\ Len(files) = 2) =>
        \A a, b \in InputPaths :
            (a # b /\ C7_Premise(a, b)) =>
                Edge(Graph1, a, b) /\ ~Edge(Graph1, b, a)

\* C7 amended: the same, when the imported name of B is not also a
\* synthesized name of A itself.
C7_EdgeWhenNameNotShared ==
    (structure1 # <<>> /\ Len(files) = 2) =>
        \A a, b \in InputPaths :
            ( /\ a # b
              /\ \E n \in RecordedImports(a) : n \in SynthNames(b) \ SynthNames(a)
              /\ \A n \in RecordedImports(b) : n \notin SynthNames(a) )
            => Edge(Graph1, a, b) /\ ~Edge(Graph1, b, a)

\* C7 witness: d.a.py imports "a", the basename of d/a.py, which imports
\* nothing, d/a.py being inserted first; the analyzer has run.
C7_Witness ==
    /\ structure1 # <<>>
    /\ DictKeys(files) = <<P_da, P_d_a>>
    /\ N_a \in RecordedImports(P_d_a)
    /\ RecordedImports(P_da) = {}
    /\ Edge(Graph1, P_d_a, P_da)

\* C9 as stated: two runs of the analyzer on the same input mapping yield
\* identical results (graph, entry points, ranking with its tie order,
\* directory summary, pattern flags).
C9_RunsIdentical ==
    (structure1 # <<>> /\ structure2 # <<>>) => structure1 = structure2

----------------------------------------------------------------------------
(* SpecCore: identify_core_modules applied to bounded dependency graphs    *)
(* whose files are the numbers 1..NumCoreFiles                             *)

\* The number of files of a graph: more than TopN of them can have dependents.
NumCoreFiles == 12

CoreFiles == 1..NumCoreFiles

\* The files that hold edges, in any dict order; each depends on an interval
\* of files (itself excluded), so that in-degrees range over 0..2.
CoreSources == { 1, 2 }

Interval(lo, hi) == { f \in CoreFiles : lo <= f /\ f <= hi }

DepSets(src) ==
    { Interval(lo, hi) \ {src} : lo \in CoreFiles, hi \in CoreFiles } \ { {} }

CoreGraphs ==
    UNION { { << <<s, d>> >> : d \in DepSets(s) } : s \in CoreSources } \cup
    UNION { { << <<st[1], d>>, <<st[2], e>> >> :
                d \in DepSets(st[1]), e \in DepSets(st[2]) } :
            st \in { x \in CoreSources \X CoreSources : x[1] # x[2] } }

NoAnalyzerRun == files = <<>> /\ structure1 = <<>> /\ structure2 = <<>>

InitCore ==
    /\ dependencies \in CoreGraphs
    /\ core_modules = <<>>
    /\ NoAnalyzerRun
    /\ NoFlowRun

\* Set iteration orders of the numbered files: ascending and descending.
CoreHashOrders ==
    { [i \in CoreFiles |-> i], [i \in CoreFiles |-> NumCoreFiles + 1 - i] }

RankCoreModules ==
    /\ core_modules = <<>>
    /\ \E order \in CoreHashOrders :
          core_modules' = << identify_core_modules(dependencies, order) >>
    /\ UNCHANGED <<dependencies, analyzerVars, flowVars>>

NextCore == RankCoreModules

SpecCore == InitCore /\ [][NextCore]_vars

----------------------------------------------------------------------------
(* Claims about the core-module ranking (SpecCore)                         *)

\* The number of distinct files that hold an edge into file f.
InDegree(g, f) == Cardinality({ i \in DOMAIN g : f \in g[i][2] })

Ranked == { core_modules[1][i][1] : i \in DOMAIN core_modules[1] }

\* C8: the ranking has at most 10 entries, lists a file at most once, pairs
\* each file with its in-degree (at least 1), is sorted by non-increasing
\* count, and leaves out no file of larger in-degree than a listed one.
C8_CoreRanking ==
    core_modules # <<>> =>
        LET cm == core_modules[1]
        IN  /\ Len(cm) <= 10
            /\ \A i, j \in DOMAIN cm : i # j => cm[i][1] # cm[j][1]
            /\ \A i \in DOMAIN cm :
                  cm[i][2] = InDegree(dependencies, cm[i][1]) /\ cm[i][2] >= 1
            /\ \A i, j \in DOMAIN cm : i < j => cm[i][2] >= cm[j][2]
            /\ \A f \in CoreFiles \ Ranked : \A i \in DOMAIN cm :
                  InDegree(dependencies, f) <= cm[i][2]

\* C8 witness: a ranking of 10 entries with counts 2 and 1 that leaves out a
\* file which has a dependent.
C8_Witness ==
    /\ core_modules # <<>>
    /\ Len(core_modules[1]) = 10
    /\ core_modules[1][1][2] = 2
    /\ core_modules[1][10][2] = 1
    /\ \E f \in CoreFiles \ Ranked : InDegree(dependencies, f) = 1

----------------------------------------------------------------------------
(* The pipeline: src/flow.py and src/nodes/*.py                            *)
(*                                                                         *)
(* The flow engine (pocketflow's Flow, Node and BatchNode) is not part of  *)
(* the repository's sources; its run loop is modelled from the             *)
(* orchestration contract of the specification:                            *)
(*   node._run(shared):  p = prep(shared); e = _exec(p); post(shared, p, e)*)
(*   Node._exec(p):      exec(p) is called up to max_retries times, with   *)
(*                       cur_retry = 0, 1, ...; the last failure propagates*)
(*   BatchNode._exec(l): Node._exec for every item, results in item order  *)
(*   Flow:               the successor of a node runs after its post; an   *)
(*                       exception anywhere ends the run.                  *)
(*                                                                         *)
(* A Reasoning Service response is [kind, blocks, text]: kind "error" when *)
(* call_llm raises, else "text" with the parsed contents of its ```yaml    *)
(* blocks in order, and whether any text is in it at all.  A block's       *)
(* content is a document [tag, val]: tag "invalid" (yaml.safe_load         *)
(* raises), "null", "str", "list" or "map".  An integer i inside a         *)
(* document is <<i>>, a value that is no integer is <<>>.                  *)

Stages ==
    << "fetch_repo", "analyze_structure", "identify_core",
       "identify_abstractions", "analyze_relationships", "order_chapters",
       "write_project_overview", "write_chapters", "combine_tutorial" >>

StageSet == Range(Stages)

\* WriteChapters built with max_retries=3.
max_retries_chapters_three(node) ==
    CASE node = "analyze_structure"      -> 3
      [] node = "identify_core"          -> 3
      [] node = "identify_abstractions"  -> 5
      [] node = "analyze_relationships"  -> 5
      [] node = "order_chapters"         -> 5
      [] node = "write_project_overview" -> 3
      [] node = "write_chapters"         -> 3
      [] OTHER                           -> 1

\* Every node built with max_retries=5.
max_retries_all_five(node) == 5

\* flow.py lines 19-27: the max_retries each node is constructed with
\* (FetchRepo() and CombineTutorial() take the Node default, 1).
max_retries(node) ==
    CASE node = "analyze_structure"      -> 3
      [] node = "identify_core"          -> 3
      [] node = "identify_abstractions"  -> 5
      [] node = "analyze_relationships"  -> 5
      [] node = "order_chapters"         -> 5
      [] node = "write_project_overview" -> 3
      [] node = "write_chapters"         -> 5
      [] OTHER                           -> 1

\* analyze_structure wired to identify_abstractions.
successor_skips_core(node) ==
    CASE node = "fetch_repo"             -> "analyze_structure"
      [] node = "analyze_structure"      -> "identify_abstractions"
      [] node = "identify_abstractions"  -> "analyze_relationships"
      [] node = "analyze_relationships"  -> "order_chapters"
      [] node = "order_chapters"         -> "write_project_overview"
      [] node = "write_project_overview" -> "write_chapters"
      [] node = "write_chapters"         -> "combine_tutorial"
      [] OTHER                           -> "done"

\* order_chapters wired to no successor.
successor_ends_early(node) ==
    CASE node = "fetch_repo"             -> "analyze_structure"
      [] node = "analyze_structure"      -> "identify_core"
      [] node = "identify_core"          -> "identify_abstractions"
      [] node = "identify_abstractions"  -> "analyze_relationships"
      [] node = "analyze_relationships"  -> "order_chapters"
      [] node = "write_project_overview" -> "write_chapters"
      [] node = "write_chapters"         -> "combine_tutorial"
      [] OTHER                           -> "done"

\* flow.py lines 30-37: node >> successor.
successor(node) ==
    CASE node = "fetch_repo"             -> "analyze_structure"
      [] node = "analyze_structure"      -> "identify_core"
      [] node = "identify_core"          -> "identify_abstractions"
      [] node = "identify_abstractions"  -> "analyze_relationships"
      [] node = "analyze_relationships"  -> "order_chapters"
      [] node = "order_chapters"         -> "write_project_overview"
      [] node = "write_project_overview" -> "write_chapters"
      [] node = "write_chapters"         -> "combine_tutorial"
      [] OTHER                           -> "done"

(* ---- the engine ---- *)

\* The pipeline leaves the analyzer specifications' variables alone.
PipelineOnly == UNCHANGED <<analyzerVars, coreVars>>

\* Where the run is: in prep, in _exec or in post of the node.
AtPrep(node) == pc = node /\ step = "prep" /\ PipelineOnly
AtExec(node) == pc = node /\ step = "exec" /\ PipelineOnly
AtPost(node) == pc = node /\ step = "post" /\ PipelineOnly

\* shared.get(key, dflt)
SharedGet(key, dflt) == IF shared[key] = <<>> THEN dflt ELSE shared[key][1]

\* prep of the node begins: the stage is started with the shared context as
\* it is, its unit of work has not been attempted.
Started(h, node) ==
    [h EXCEPT !.started = Append(@, node), !.attempts = 0, !.outcome = "none",
              !.accepted = <<>>, !.cache = <<>>, !.context = <<shared>>]

\* prep returned p: _exec begins with cur_retry = 0.
PrepReturns(node, p) ==
    /\ prep_res' = <<p>>
    /\ step' = "exec"
    /\ cur_retry' = 0
    /\ UNCHANGED <<pc, exec_res>>

\* An exception leaves prep, post or the last attempt of exec: the run ends.
RunAborts == pc' = "aborted" /\ UNCHANGED <<step, cur_retry, prep_res, exec_res>>

\* One call of exec by Node._exec returned res (ok) or raised (~ok); resp is
\* the response the call received, <<>> when it made none.
Attempted(h, node, ok, resp) ==
    [h EXCEPT !.attempts = @ + 1,
              !.outcome  = IF ok THEN "ok" ELSE "failed",
              !.accepted = IF ok THEN <<resp>> ELSE @]

\* The use_cache argument of the node's call of call_llm.  AnalyzeStructure
\* and IdentifyCore pass `use_cache and self.cur_retry == 0`, with use_cache
\* read from the shared context, True when absent (analysis.py lines 79,
\* 131, 178, 219); the other nodes call call_llm(prompt) and leave the
\* argument to the default of call_llm (analysis.py line 325,
\* relationships.py lines 62 and 133, output.py lines 69 and 169).
use_cache(node) ==
    IF node \in {"analyze_structure", "identify_core"}
    THEN IF SharedGet("use_cache", TRUE) /\ cur_retry = 0
         THEN "allowed" ELSE "bypass"
    ELSE "default"

\* The call of exec called call_llm.
Called(h, node) == [h EXCEPT !.cache = <<use_cache(node)>>]

ExecReturns(node, res) ==
    /\ exec_res' = <<res>>
    /\ step' = "post"
    /\ UNCHANGED <<pc, cur_retry, prep_res>>

ExecRaises(node) ==
    IF cur_retry = max_retries(node) - 1
    THEN RunAborts
    ELSE cur_retry' = cur_retry + 1 /\ UNCHANGED <<pc, step, prep_res, exec_res>>

\* post returned: the flow moves to the node's successor.
PostReturns(node) ==
    /\ pc' = successor(node)
    /\ step' = IF successor(node) = "done" THEN "done" ELSE "prep"
    /\ prep_res' = <<>>
    /\ exec_res' = <<>>
    /\ UNCHANGED cur_retry

(* ---- Reasoning Service responses ---- *)

Doc(tag, val) == [tag |-> tag, val |-> val]

TextWith(blocks) == [kind |-> "text", blocks |-> blocks, text |-> "prose"]

LlmError   == [kind |-> "error", blocks |-> <<>>, text |-> ""]
EmptyText  == [kind |-> "text",  blocks |-> <<>>, text |-> ""]
ProseOnly  == TextWith(<<>>)
BadYaml    == TextWith(<< Doc("invalid", <<>>) >>)
NullBlock  == TextWith(<< Doc("null", <<>>) >>)
StrBlock   == TextWith(<< Doc("str", <<>>) >>)

\* The responses no stage can use: an error of the service, an empty text,
\* a text without a block, a block that is no YAML, is empty, or is a scalar.
MalformedResponses == { LlmError, EmptyText, ProseOnly, BadYaml, NullBlock, StrBlock }

\* response.split("```yaml")[1].split("```")[0] and yaml.safe_load: the first
\* block's document; IndexError without a block, YAMLError on invalid YAML.
ParseRaises(response) ==
    \/ response.kind = "error"
    \/ Len(response.blocks) = 0
    \/ response.blocks[1].tag = "invalid"

Parsed(response) == response.blocks[1]

\* isinstance(doc, dict) and key in doc
IsDictWith(doc, key) == doc.tag = "map" /\ key \in DOMAIN doc.val

(* ---- the run's input ---- *)

RepoUrl == <<"h", "/", "r", "e", "p", "o", ".", "g", "i", "t">>
GivenName == <<"r", "e", "p", "o">>

SourceContent == [size |-> 10, imports |-> {}, main |-> FALSE]

\* a.py and d/a.py, where d/a.py imports a.
SourceFiles ==
    << <<P_a, SourceContent>>,
       <<P_da, [SourceContent EXCEPT !.imports = {N_a}]>> >>

\* What the Source Provider may return: no file, or the two files.
SourcePool == { <<>>, SourceFiles }

\* History of the run: the calls of exec made for the unit of work under way
\* and how the last one ended, the response the last started stage used, the
\* stages started, what the Source Provider returned, the documents written.
NoHistory ==
    [ attempts |-> 0,
      outcome  |-> "none",
      accepted |-> <<>>,
      cache    |-> <<>>,
      context  |-> <<>>,
      started  |-> <<>>,
      crawled  |-> <<>>,
      written  |-> <<>> ]

\* WriteChapters' fan-out before it starts: no item under work, no result
\* slot, no item completed, no item completed after a failed attempt.
NoBatch == [item |-> 0, results |-> <<>>, completed |-> <<>>, retried |-> FALSE]

Init ==
    /\ \E name \in { <<>>, <<GivenName>> }, toggle \in { <<>>, <<FALSE>> } :
          shared = [ project_name     |-> name,
                     use_cache        |-> toggle,
                     files            |-> <<>>,
                     structure        |-> <<>>,
                     core_files       |-> <<>>,
                     abstractions     |-> <<>>,
                     relationships    |-> <<>>,
                     chapter_order    |-> <<>>,
                     project_overview |-> <<>>,
                     chapters         |-> <<>>,
                     final_output_dir |-> <<>> ]
    /\ pc = "fetch_repo"
    /\ step = "prep"
    /\ cur_retry = 0
    /\ prep_res = <<>>
    /\ exec_res = <<>>
    /\ batch = NoBatch
    /\ hist = NoHistory
    /\ NoAnalyzerRun
    /\ NoCoreRun

(* ---- FetchRepo (src/nodes/analysis.py) ---- *)

\* Lines 18-24: the name given, else the last segment of repo_url without
\* ".git".
ProjectName(given) ==
    IF given # <<>> /\ given[1] # <<>> THEN given[1]
    ELSE Replace(basename(RepoUrl), <<".", "g", "i", "t">>, <<>>)

FetchRepo_prep ==
    /\ AtPrep("fetch_repo")
    /\ shared' = [shared EXCEPT !.project_name = <<ProjectName(@)>>]
    /\ PrepReturns("fetch_repo", "crawl_arguments")
    /\ hist' = Started(hist, "fetch_repo")
    /\ UNCHANGED batch

\* The test of line 64 left out.
FetchNeverRaises(files_list) == FALSE

\* Lines 63-65: the crawl result as a list; an empty list raises.
FetchRaises(files_list) == Len(files_list) = 0

FetchRepo_exec ==
    /\ AtExec("fetch_repo")
    /\ \E files_list \in SourcePool :
          /\ hist' = [Attempted(hist, "fetch_repo", ~FetchRaises(files_list), <<>>)
                        EXCEPT !.crawled = <<files_list>>]
          /\ IF FetchRaises(files_list)
             THEN ExecRaises("fetch_repo")
             ELSE ExecReturns("fetch_repo", files_list)
    /\ UNCHANGED <<shared, batch>>

FetchRepo_post ==
    /\ AtPost("fetch_repo")
    /\ shared' = [shared EXCEPT !.files = <<exec_res[1]>>]
    /\ PostReturns("fetch_repo")
    /\ UNCHANGED <<batch, hist>>

(* ---- AnalyzeStructure (src/nodes/analysis.py) ---- *)

Missing(keys) == \E k \in keys : shared[k] = <<>>

AnalyzeStructure_prep ==
    /\ AtPrep("analyze_structure")
    /\ hist' = Started(hist, "analyze_structure")
    /\ IF Missing({"files", "project_name"})
       THEN RunAborts
       ELSE PrepReturns("analyze_structure", shared.files[1])
    /\ UNCHANGED <<shared, batch>>

ArchitectureDoc == Doc("map", [description |-> <<>>])

CoreAreasDoc == Doc("list", << Doc("map", [name |-> <<>>, description |-> <<>>]) >>)

\* The structure stage's record with every key, and one without core_areas
\* and with a key the stage does not know.
StructureFull ==
    Doc("map", [ architecture |-> ArchitectureDoc, key_directories |-> <<>>,
                 technology_stack |-> <<>>, entry_points |-> <<>>,
                 core_areas |-> CoreAreasDoc ])

StructurePartial ==
    Doc("map", [ architecture |-> ArchitectureDoc, notes |-> <<>> ])

StructureResponses ==
    MalformedResponses \cup
    { TextWith(<<StructureFull>>), TextWith(<<StructurePartial>>),
      TextWith(<<StructureFull, StructurePartial>>) }

\* Lines 91-140: the analyzer's facts with the parsed document added under
\* llm_analysis, whatever the document is.
AnalyzeStructure_exec ==
    /\ AtExec("analyze_structure")
    /\ \E response \in StructureResponses,
          order \in HashOrders(prep_res[1]) :
          /\ hist' = Called(Attempted(hist, "analyze_structure",
                                      ~ParseRaises(response), response),
                            "analyze_structure")
          /\ IF ParseRaises(response)
             THEN ExecRaises("analyze_structure")
             ELSE ExecReturns("analyze_structure",
                     [ analysis     |-> analyze_file_structure(prep_res[1], order),
                       llm_analysis |-> Parsed(response) ])
    /\ UNCHANGED <<shared, batch>>

AnalyzeStructure_post ==
    /\ AtPost("analyze_structure")
    /\ shared' = [shared EXCEPT !.structure = <<exec_res[1]>>]
    /\ PostReturns("analyze_structure")
    /\ UNCHANGED <<batch, hist>>

(* ---- IdentifyCore (src/nodes/analysis.py) ---- *)

Min(a, b) == IF a < b THEN a ELSE b

\* Line 179: at most 20 core files, or half the codebase.
MaxCoreFiles == 20

IdentifyCore_prep ==
    /\ AtPrep("identify_core")
    /\ hist' = Started(hist, "identify_core")
    /\ IF Missing({"structure", "files", "project_name"})
       THEN RunAborts
       ELSE PrepReturns("identify_core",
               [ structure      |-> shared.structure[1],
                 files_data     |-> shared.files[1],
                 max_core_files |-> Min(MaxCoreFiles, Len(shared.files[1]) \div 2) ])
    /\ UNCHANGED <<shared, batch>>

\* Lines 243-268, _create_core_selection_context: .get is called on
\* llm_analysis, on its architecture and on every entry of its core_areas;
\* AttributeError when one of them is no dict.
CoreContextRaises(structure) ==
    LET llm == structure.llm_analysis
    IN  \/ llm.tag # "map"
        \/ /\ "architecture" \in DOMAIN llm.val
           /\ llm.val.architecture.tag # "map"
        \/ /\ "core_areas" \in DOMAIN llm.val
           /\ \E k \in DOMAIN llm.val.core_areas.val :
                 llm.val.core_areas.val[k].tag # "map"

\* Line 231: isinstance(item, dict) and "index" in item
HasIndex(item) == IsDictWith(item, "index")

\* Lines 225-235: ValueError when the document is no dict with core_files;
\* TypeError when core_files is null (not iterable) or when an index that is
\* no integer is compared with 0.
CoreSelectionRaises(core_selection) ==
    \/ ~IsDictWith(core_selection, "core_files")
    \/ core_selection.val.core_files.tag # "list"
    \/ \E k \in DOMAIN core_selection.val.core_files.val :
          LET item == core_selection.val.core_files.val[k]
          IN  HasIndex(item) /\ item.val.index = <<>>

\* Lines 229-235: the indices of the items that carry one, in the order of
\* the response, those outside 0..len(files_data)-1 left out.
core_indices(core_selection, n) ==
    LET Kept(item) == /\ HasIndex(item)
                      /\ 0 <= item.val.index[1]
                      /\ item.val.index[1] < n
        kept == SelectSeq(core_selection.val.core_files.val, Kept)
    IN  [k \in DOMAIN kept |-> kept[k].val.index[1]]

CoreItem(i) == Doc("map", [index |-> <<i>>, path |-> <<>>])

CoreDoc(core_files) == Doc("map", [core_files |-> core_files])

\* Core selections: both files; the same followed by a second block; one
\* file among an index past the end, a
\* negative index, an item that is no dict and an item without index; an
\* index that is no integer; core_files null; no core_files key.
CoreResponses ==
    MalformedResponses \cup
    { TextWith(<< CoreDoc(Doc("list", << CoreItem(0), CoreItem(1) >>)) >>),
      TextWith(<< CoreDoc(Doc("list", << CoreItem(0), CoreItem(1) >>)),
                  CoreDoc(Doc("list", << CoreItem(0) >>)) >>),
      TextWith(<< CoreDoc(Doc("list", << CoreItem(0), CoreItem(5), CoreItem(-1),
                                         Doc("str", <<>>),
                                         Doc("map", [path |-> <<>>]) >>)) >>),
      TextWith(<< CoreDoc(Doc("list", << Doc("map", [index |-> <<>>]) >>)) >>),
      TextWith(<< CoreDoc(Doc("null", <<>>)) >>),
      TextWith(<< Doc("map", [files |-> <<>>]) >>) }

\* Lines 183-238.  The context is built before the service is called.
IdentifyCore_exec ==
    /\ AtExec("identify_core")
    /\ IF CoreContextRaises(prep_res[1].structure)
       THEN /\ hist' = Attempted(hist, "identify_core", FALSE, <<>>)
            /\ ExecRaises("identify_core")
       ELSE \E response \in CoreResponses :
               LET raises == \/ ParseRaises(response)
                             \/ CoreSelectionRaises(Parsed(response))
               IN  /\ hist' = Called(Attempted(hist, "identify_core", ~raises, response),
                                   "identify_core")
                   /\ IF raises
                      THEN ExecRaises("identify_core")
                      ELSE ExecReturns("identify_core",
                              core_indices(Parsed(response),
                                           Len(prep_res[1].files_data)))
    /\ UNCHANGED <<shared, batch>>

IdentifyCore_post ==
    /\ AtPost("identify_core")
    /\ shared' = [shared EXCEPT !.core_files = <<exec_res[1]>>]
    /\ PostReturns("identify_core")
    /\ UNCHANGED <<batch, hist>>

(* ---- IdentifyAbstractions (src/nodes/analysis.py) ---- *)

\* Lines 274-287: files is required; core_files defaults to [].
IdentifyAbstractions_prep ==
    /\ AtPrep("identify_abstractions")
    /\ hist' = Started(hist, "identify_abstractions")
    /\ IF Missing({"files"})
       THEN RunAborts
       ELSE PrepReturns("identify_abstractions",
               [ core_content |->
                    LET core_files == IF shared.core_files = <<>> THEN <<>>
                                      ELSE shared.core_files[1]
                    IN  [k \in DOMAIN core_files |-> shared.files[1][core_files[k] + 1][1]] ])
    /\ UNCHANGED <<shared, batch>>

\* Lines 331-336.
AbstractionsRaises(result) ==
    \/ ~IsDictWith(result, "abstractions")
    \/ result.val.abstractions.tag # "list"
    \/ Len(result.val.abstractions.val) = 0

\* The largest number of abstractions a response lists.
MaxAbstractions == 2

\* Display names; the first two differ but sanitize to the same file name.
AbstractionNames ==
    << <<"A", " ", "a">>, <<"a", "_", "a">>, <<"M">>, <<"T">> >>

Abstraction(k) ==
    Doc("map", [ name                    |-> AbstractionNames[k + 1],
                 primary_responsibility  |-> <<>>,
                 implementation_approach |-> <<>>,
                 key_interfaces          |-> <<>>,
                 technical_details       |-> <<>>,
                 dependencies            |-> <<>>,
                 usage_context           |-> <<>>,
                 files                   |-> << <<0>>, <<5>> >> ])

AbstractionsDoc(list) == Doc("map", [abstractions |-> list])

\* Abstraction lists: 1..MaxAbstractions full records; one record followed
\* by a second block; one record with a name only; an empty list; a scalar;
\* no abstractions key.
AbstractionResponses ==
    MalformedResponses \cup
    { TextWith(<< AbstractionsDoc(Doc("list", [k \in 1..n |-> Abstraction(k - 1)])) >>) :
         n \in 1..MaxAbstractions } \cup
    { TextWith(<< AbstractionsDoc(Doc("list", << Abstraction(0) >>)),
                  AbstractionsDoc(Doc("list", <<>>)) >>),
      TextWith(<< AbstractionsDoc(Doc("list", << Doc("map", [name |-> AbstractionNames[1]]) >>)) >>),
      TextWith(<< AbstractionsDoc(Doc("list", <<>>)) >>),
      TextWith(<< AbstractionsDoc(Doc("str", <<>>)) >>),
      TextWith(<< Doc("map", [components |-> <<>>]) >>) }

\* Lines 289-338.
IdentifyAbstractions_exec ==
    /\ AtExec("identify_abstractions")
    /\ \E response \in AbstractionResponses :
          LET raises == \/ ParseRaises(response)
                        \/ AbstractionsRaises(Parsed(response))
          IN  /\ hist' = Called(Attempted(hist, "identify_abstractions", ~raises, response),
                                   "identify_abstractions")
              /\ IF raises
                 THEN ExecRaises("identify_abstractions")
                 ELSE ExecReturns("identify_abstractions",
                                  Parsed(response).val.abstractions.val)
    /\ UNCHANGED <<shared, batch>>

IdentifyAbstractions_post ==
    /\ AtPost("identify_abstractions")
    /\ shared' = [shared EXCEPT !.abstractions = <<exec_res[1]>>]
    /\ PostReturns("identify_abstractions")
    /\ UNCHANGED <<batch, hist>>

(* ---- AnalyzeRelationships (src/nodes/relationships.py) ---- *)

AnalyzeRelationships_prep ==
    /\ AtPrep("analyze_relationships")
    /\ hist' = Started(hist, "analyze_relationships")
    /\ IF Missing({"abstractions"})
       THEN RunAborts
       ELSE PrepReturns("analyze_relationships",
                        [abstractions |-> shared.abstractions[1]])
    /\ UNCHANGED <<shared, batch>>

\* abs_info[key] for every key the node formats: TypeError or KeyError when
\* an abstraction is no dict or lacks the key.
LacksFields(abstractions, keys) ==
    \E k \in DOMAIN abstractions :
       \/ abstractions[k].tag # "map"
       \/ ~(keys \subseteq DOMAIN abstractions[k].val)

\* Lines 19-22 (and 92-94, output.py 26-28): the component listing.
ListingFields == {"name", "primary_responsibility"}

\* Line 68.
required_keys == {"summary", "architecture_overview", "component_relationships"}

\* Lines 69-71: `key not in result` is a TypeError on null and true for every
\* key on a list or on a scalar that does not contain the key's text.
RelationshipsRaises(result) ==
    \/ result.tag # "map"
    \/ ~(required_keys \subseteq DOMAIN result.val)

Rel(from, to) ==
    Doc("map", [from |-> <<from>>, to |-> <<to>>, relationship_type |-> <<>>])

FlowOf(components) ==
    Doc("map", [flow_name |-> <<>>, components |-> components])

\* Every key of the record, one edge between components 0 and 1.
RelFull ==
    Doc("map", [ summary                 |-> <<>>,
                 architecture_overview   |-> <<>>,
                 component_relationships |-> Doc("list", << Rel(0, 1) >>),
                 data_flow               |-> Doc("list", << FlowOf(<< <<0>>, <<1>>, <<5>> >>) >>),
                 api_interfaces          |-> Doc("list", <<>>) ])

\* The three required keys only; an edge to a component past the end and an
\* edge from component -1.
RelThree ==
    Doc("map", [ summary                 |-> <<>>,
                 architecture_overview   |-> <<>>,
                 component_relationships |-> Doc("list", << Rel(0, 5), Rel(-1, 0) >>) ])

\* An edge from component -7.
RelFar ==
    Doc("map", [ summary                 |-> <<>>,
                 architecture_overview   |-> <<>>,
                 component_relationships |-> Doc("list", << Rel(-7, 0) >>) ])

RelNoEdges ==
    Doc("map", [ summary |-> <<>>, architecture_overview |-> <<>> ])

RelationshipResponses ==
    MalformedResponses \cup
    { TextWith(<<RelFull>>), TextWith(<<RelThree>>), TextWith(<<RelFar>>),
      TextWith(<<RelNoEdges>>), TextWith(<<RelFull, RelThree>>) }

\* Lines 15-73.  The component listing is built before the service is called.
AnalyzeRelationships_exec ==
    /\ AtExec("analyze_relationships")
    /\ IF LacksFields(prep_res[1].abstractions, ListingFields)
       THEN /\ hist' = Attempted(hist, "analyze_relationships", FALSE, <<>>)
            /\ ExecRaises("analyze_relationships")
       ELSE \E response \in RelationshipResponses :
               LET raises == \/ ParseRaises(response)
                             \/ RelationshipsRaises(Parsed(response))
               IN  /\ hist' = Called(Attempted(hist, "analyze_relationships", ~raises, response),
                                   "analyze_relationships")
                   /\ IF raises
                      THEN ExecRaises("analyze_relationships")
                      ELSE ExecReturns("analyze_relationships", Parsed(response).val)
    /\ UNCHANGED <<shared, batch>>

AnalyzeRelationships_post ==
    /\ AtPost("analyze_relationships")
    /\ shared' = [shared EXCEPT !.relationships = <<exec_res[1]>>]
    /\ PostReturns("analyze_relationships")
    /\ UNCHANGED <<batch, hist>>

(* ---- OrderChapters (src/nodes/relationships.py) ---- *)

\* Lines 83-86: abstractions is required; relationships defaults to {}.
OrderChapters_prep ==
    /\ AtPrep("order_chapters")
    /\ hist' = Started(hist, "order_chapters")
    /\ IF Missing({"abstractions"})
       THEN RunAborts
       ELSE PrepReturns("order_chapters",
               [ abstractions  |-> shared.abstractions[1],
                 relationships |-> IF shared.relationships = <<>>
                                   THEN [summary |-> <<>>]
                                   ELSE shared.relationships[1] ])
    /\ UNCHANGED <<shared, batch>>

\* relationships.get("component_relationships", []) as a document.
ComponentRelationships(relationships) ==
    IF "component_relationships" \in DOMAIN relationships
    THEN relationships.component_relationships
    ELSE Doc("list", <<>>)

\* rel.get(key, dflt): <<i>> for an integer, <<>> for another value.
RelGet(rel, key, dflt) ==
    IF key \in DOMAIN rel.val THEN rel.val[key] ELSE dflt

\* Lines 98-103: TypeError when the relationships are not iterable or an index
\* compared with len(abstractions) is no integer, AttributeError when a
\* relationship is no dict, IndexError when abstractions[from_idx] or
\* abstractions[to_idx] is read with an index below -len(abstractions).
RelationshipContextRaises(relationships, n) ==
    LET rels == ComponentRelationships(relationships)
    IN  \/ rels.tag # "list"
        \/ \E k \in DOMAIN rels.val :
              LET rel == rels.val[k]
              IN  \/ rel.tag # "map"
                  \/ LET from_idx == RelGet(rel, "from", <<0>>)
                         to_idx   == RelGet(rel, "to", <<0>>)
                     IN  \/ from_idx = <<>>
                         \/ /\ from_idx[1] < n
                            /\ \/ to_idx = <<>>
                               \/ /\ to_idx[1] < n
                                  /\ (from_idx[1] < -n \/ to_idx[1] < -n)

\* Lines 138-143.
OrderRaises(result) ==
    \/ ~IsDictWith(result, "chapter_order")
    \/ result.val.chapter_order.tag # "list"

\* Mutant: line 148 without the test idx < len(abstractions).
valid_order_no_upper_bound(chapter_order, n) ==
    LET Valid(idx) == idx # <<>> /\ 0 <= idx[1]
        kept == SelectSeq(chapter_order, Valid)
    IN  [k \in DOMAIN kept |-> kept[k][1]]

\* Lines 146-149: the entries that are integers in 0..len(abstractions)-1, in
\* the order and with the multiplicity of the response.
valid_order(chapter_order, n) ==
    LET Valid(idx) == idx # <<>> /\ 0 <= idx[1] /\ idx[1] < n
        kept == SelectSeq(chapter_order, Valid)
    IN  [k \in DOMAIN kept |-> kept[k][1]]

\* list(range(n))
IdentityOrder(n) == [k \in 1..n |-> k - 1]

\* Lines 145-156: the sequential order only when no entry is valid.
OrderOf(chapter_order, n) ==
    IF valid_order(chapter_order, n) = <<>>
    THEN IdentityOrder(n)
    ELSE valid_order(chapter_order, n)

OrderDoc(chapter_order) ==
    Doc("map", [chapter_order |-> chapter_order, reasoning |-> <<>>])

\* The lists of indices the service may return.
OrderLists ==
    { << <<1>>, <<0>> >>,
      << <<2>>, <<0>>, <<1>> >>,
      << <<0>>, <<0>>, <<1>> >>,
      << <<1>> >>,
      << <<0>>, <<5>>, <<1>> >>,
      << <<7>>, <<>> >>,
      << <<-1>>, <<0>> >>,
      <<>> }

OrderResponses ==
    MalformedResponses \cup
    { TextWith(<< OrderDoc(Doc("list", l)) >>) : l \in OrderLists } \cup
    { TextWith(<< OrderDoc(Doc("str", <<>>)) >>),
      TextWith(<< Doc("map", [reasoning |-> <<>>]) >>),
      TextWith(<< OrderDoc(Doc("list", << <<1>>, <<0>> >>)),
                  OrderDoc(Doc("list", << <<0>>, <<1>> >>)) >>) }

\* Lines 88-156.  Both contexts are built before the service is called.
OrderChapters_exec ==
    /\ AtExec("order_chapters")
    /\ LET abstractions == prep_res[1].abstractions
           n            == Len(abstractions)
       IN  IF \/ LacksFields(abstractions, ListingFields)
              \/ RelationshipContextRaises(prep_res[1].relationships, n)
           THEN /\ hist' = Attempted(hist, "order_chapters", FALSE, <<>>)
                /\ ExecRaises("order_chapters")
           ELSE \E response \in OrderResponses :
                   LET raises == \/ ParseRaises(response)
                                 \/ OrderRaises(Parsed(response))
                   IN  /\ hist' = Called(Attempted(hist, "order_chapters", ~raises, response),
                                   "order_chapters")
                       /\ IF raises
                          THEN ExecRaises("order_chapters")
                          ELSE ExecReturns("order_chapters",
                                  OrderOf(Parsed(response).val.chapter_order.val, n))
    /\ UNCHANGED <<shared, batch>>

OrderChapters_post ==
    /\ AtPost("order_chapters")
    /\ shared' = [shared EXCEPT !.chapter_order = <<exec_res[1]>>]
    /\ PostReturns("order_chapters")
    /\ UNCHANGED <<batch, hist>>

(* ---- WriteProjectOverview (src/nodes/output.py) ---- *)

\* Lines 9-16: every key has a default.
WriteProjectOverview_prep ==
    /\ AtPrep("write_project_overview")
    /\ hist' = Started(hist, "write_project_overview")
    /\ PrepReturns("write_project_overview",
          [ abstractions |-> SharedGet("abstractions", <<>>) ])
    /\ UNCHANGED <<shared, batch>>

\* The texts a document-writing call may receive: an error of the service,
\* an empty text, a text.
TextResponses == { LlmError, EmptyText, ProseOnly }

\* Lines 18-70: the response is returned as it is.
WriteProjectOverview_exec ==
    /\ AtExec("write_project_overview")
    /\ IF LacksFields(prep_res[1].abstractions, ListingFields)
       THEN /\ hist' = Attempted(hist, "write_project_overview", FALSE, <<>>)
            /\ ExecRaises("write_project_overview")
       ELSE \E response \in TextResponses :
               LET raises == response.kind = "error"
               IN  /\ hist' = Called(Attempted(hist, "write_project_overview", ~raises, response),
                                   "write_project_overview")
                   /\ IF raises
                      THEN ExecRaises("write_project_overview")
                      ELSE ExecReturns("write_project_overview", response.text)
    /\ UNCHANGED <<shared, batch>>

WriteProjectOverview_post ==
    /\ AtPost("write_project_overview")
    /\ shared' = [shared EXCEPT !.project_overview = <<exec_res[1]>>]
    /\ PostReturns("write_project_overview")
    /\ UNCHANGED <<batch, hist>>

(* ---- WriteChapters, a BatchNode (src/nodes/output.py) ---- *)

\* One chapter context per abstraction, in the order of the abstractions.
ChaptersToWrite_by_abstraction(chapter_order, abstractions, relationships) ==
    [ i \in DOMAIN abstractions |->
        [ abstraction       |-> abstractions[i],
          relationships     |-> relationships,
          n                 |-> Len(abstractions),
          abstraction_index |-> i - 1 ] ]

\* Lines 87-105: one chapter context per entry of chapter_order, in that
\* order.
ChaptersToWrite(chapter_order, abstractions, relationships) ==
    [ i \in DOMAIN chapter_order |->
        [ abstraction       |-> abstractions[chapter_order[i] + 1],
          relationships     |-> relationships,
          n                 |-> Len(abstractions),
          abstraction_index |-> chapter_order[i] ] ]

\* Lines 88-94: IndexError when an entry of chapter_order is outside the
\* abstractions, AttributeError when an abstraction is no dict.
ChapterPrepRaises(chapter_order, abstractions) ==
    \E i \in DOMAIN chapter_order :
       \/ chapter_order[i] >= Len(abstractions)
       \/ chapter_order[i] < -Len(abstractions)
       \/ abstractions[chapter_order[i] + 1].tag # "map"

\* Without item the batch returns the empty list at once.
WriteChapters_prep ==
    /\ AtPrep("write_chapters")
    /\ hist' = Started(hist, "write_chapters")
    /\ IF Missing({"chapter_order", "abstractions", "relationships", "files"})
       THEN RunAborts /\ UNCHANGED batch
       ELSE LET chapter_order == shared.chapter_order[1]
                abstractions  == shared.abstractions[1]
            IN  IF ChapterPrepRaises(chapter_order, abstractions)
                THEN RunAborts /\ UNCHANGED batch
                ELSE LET items == ChaptersToWrite(chapter_order, abstractions,
                                                  shared.relationships[1])
                     IN  /\ batch' = [NoBatch EXCEPT
                                        !.results = [i \in DOMAIN items |-> <<>>]]
                         /\ IF items = <<>>
                            THEN /\ prep_res' = << <<>> >>
                                 /\ exec_res' = << <<>> >>
                                 /\ step' = "post"
                                 /\ UNCHANGED <<pc, cur_retry>>
                            ELSE PrepReturns("write_chapters", items)
    /\ UNCHANGED shared

\* Lines 134-143: the fields of the abstraction the prompt names.
ChapterFields ==
    { "name", "primary_responsibility", "implementation_approach",
      "key_interfaces", "technical_details", "dependencies", "usage_context" }

\* Lines 116-128: the relationships that name this component and the index of
\* the component at their other end; AttributeError, TypeError, IndexError as
\* in RelationshipContextRaises.
ChapterContextRaises(chapter_context) ==
    LET rels == ComponentRelationships(chapter_context.relationships)
        idx  == <<chapter_context.abstraction_index>>
        n    == chapter_context.n
    IN  \/ rels.tag # "list"
        \/ \E k \in DOMAIN rels.val :
              LET rel == rels.val[k]
              IN  \/ rel.tag # "map"
                  \/ /\ RelGet(rel, "from", <<>>) = idx \/ RelGet(rel, "to", <<>>) = idx
                     /\ LET other_idx == IF RelGet(rel, "from", <<>>) = idx
                                         THEN RelGet(rel, "to", <<>>)
                                         ELSE RelGet(rel, "from", <<>>)
                        IN  other_idx = <<>> \/ other_idx[1] < -n
        \/ ~(ChapterFields \subseteq DOMAIN chapter_context.abstraction.val)

\* The items whose unit of work may run now: the one under work, else any
\* item without result.
Runnable ==
    IF batch.item # 0 THEN {batch.item}
    ELSE { i \in DOMAIN batch.results : batch.results[i] = <<>> }

\* One call of exec(chapter_context) for item i (lines 109-170): the text
\* returned for the prompt about component abstraction_index.  The item's
\* result goes to slot i; the batch returns when every slot is filled.
WriteChapters_exec ==
    /\ AtExec("write_chapters")
    /\ \E i \in Runnable, response \in TextResponses :
          LET chapter_context == prep_res[1][i]
              raises  == \/ ChapterContextRaises(chapter_context)
                         \/ response.kind = "error"
              h       == IF batch.item = 0
                         THEN [hist EXCEPT !.attempts = 0, !.outcome = "none",
                                           !.cache = <<>>]
                         ELSE hist
              results == [batch.results EXCEPT
                            ![i] = << [ abstraction_index |-> chapter_context.abstraction_index,
                                        text |-> response.text ] >>]
          IN  /\ hist' = IF ChapterContextRaises(chapter_context)
                         THEN Attempted(h, "write_chapters", FALSE, <<>>)
                         ELSE Called(Attempted(h, "write_chapters", ~raises, response),
                                     "write_chapters")
              /\ IF raises
                 THEN /\ batch' = [batch EXCEPT !.item = i]
                      /\ ExecRaises("write_chapters")
                 ELSE /\ batch' = [batch EXCEPT !.item = 0, !.results = results,
                                                !.completed = Append(@, i),
                                                !.retried = @ \/ cur_retry > 0]
                      /\ IF \A j \in DOMAIN results : results[j] # <<>>
                         THEN /\ exec_res' = << [j \in DOMAIN results |-> results[j][1]] >>
                              /\ step' = "post"
                              /\ UNCHANGED <<pc, cur_retry, prep_res>>
                         ELSE /\ cur_retry' = 0
                              /\ UNCHANGED <<pc, step, prep_res, exec_res>>
    /\ UNCHANGED shared

\* Lines 172-174.
WriteChapters_post ==
    /\ AtPost("write_chapters")
    /\ shared' = [shared EXCEPT !.chapters = <<exec_res[1]>>]
    /\ PostReturns("write_chapters")
    /\ UNCHANGED <<batch, hist>>

(* ---- CombineTutorial (src/nodes/output.py) ---- *)

\* Lines 180-189: project_name, project_overview and output_dir have defaults.
CombineTutorial_prep ==
    /\ AtPrep("combine_tutorial")
    /\ hist' = Started(hist, "combine_tutorial")
    /\ IF Missing({"abstractions", "relationships", "chapter_order", "chapters"})
       THEN RunAborts
       ELSE PrepReturns("combine_tutorial",
               [ project_name     |-> SharedGet("project_name", <<"U">>),
                 abstractions     |-> shared.abstractions[1],
                 relationships    |-> shared.relationships[1],
                 chapter_order    |-> shared.chapter_order[1],
                 chapters         |-> shared.chapters[1],
                 project_overview |-> SharedGet("project_overview", "") ])
    /\ UNCHANGED <<shared, batch>>

\* str.isalnum on the model's alphabet.
AlnumChars ==
    { "a", "b", "c", "d", "e", "g", "h", "i", "m", "n", "o", "p", "r", "t",
      "v", "w", "x", "y", "A", "M", "T", "U",
      "0", "1", "2", "3", "4", "5", "6", "7", "8", "9" }

\* Lines 201 and 266: every character that is not alphanumeric, "-" or "_"
\* becomes "_".
Sanitize(s) ==
    [i \in DOMAIN s |-> IF s[i] \in AlnumChars \cup {"-", "_"} THEN s[i] ELSE "_"]

DigitChars == <<"0", "1", "2", "3", "4", "5", "6", "7", "8", "9">>

\* f"{k:02d}" for 0 <= k < 100
TwoDigits(k) == << DigitChars[(k \div 10) + 1], DigitChars[(k % 10) + 1] >>

\* Mutant: line 267 without the numeric prefix, f"{safe_name}.md".
chapter_filename_no_prefix(i, name) ==
    Sanitize(Lower(name)) \o <<".", "m", "d">>

\* Line 267: f"{i+1:02d}_{safe_name}.md", i counted from 0.
chapter_filename(i, name) ==
    TwoDigits(i + 1) \o <<"_">> \o Sanitize(Lower(name)) \o <<".", "m", "d">>

OverviewFile == <<"p", "r", "o", "j", "e", "c", "t", "_", "o", "v", "e", "r",
                  "v", "i", "e", "w", ".", "m", "d">>

IndexFile == <<"i", "n", "d", "e", "x", ".", "m", "d">>

\* Line 202: os.path.join(base_output_dir, safe_project_name)
OutputDir(project_name) ==
    <<"o", "u", "t", "p", "u", "t", "/">> \o Sanitize(project_name)

\* Lines 237-242: the edges of the component diagram, A{from} --> A{to}.
DiagramEdges(relationships, n) ==
    LET rels == ComponentRelationships(relationships).val
        Drawn(rel) == /\ RelGet(rel, "from", <<0>>)[1] < n
                      /\ RelGet(rel, "to", <<0>>)[1] < n
        drawn == SelectSeq(rels, Drawn)
    IN  [k \in DOMAIN drawn |->
            << RelGet(drawn[k], "from", <<0>>)[1], RelGet(drawn[k], "to", <<0>>)[1] >>]

\* Lines 251-257: the edges of one flow, between consecutive components.
FlowEdges(flow, n) ==
    LET components == IF "components" \in DOMAIN flow.val
                      THEN flow.val.components ELSE <<>>
        Drawn(k) == components[k][1] < n /\ components[k + 1][1] < n
    IN  { << k, components[k][1], components[k + 1][1] >> :
             k \in { j \in 1..(Len(components) - 1) : Drawn(j) } }

\* Lines 247-258: the data-flow diagram, when data_flow is given and not
\* empty.
DataFlowEdges(relationships, n) ==
    IF "data_flow" \in DOMAIN relationships
    THEN [k \in DOMAIN relationships.data_flow.val |->
            FlowEdges(relationships.data_flow.val[k], n)]
    ELSE <<>>

\* Lines 263-270: position i of chapter_order gives the file named after
\* abstraction chapter_order[i], holding chapters[i].
chapter_files(chapter_order, abstractions, chapters) ==
    [ i \in DOMAIN chapter_order |->
        [ file        |-> chapter_filename(i - 1,
                             abstractions[chapter_order[i] + 1].val.name),
          abstraction |-> chapter_order[i],
          content     |-> chapters[i] ] ]

\* Lines 231-234 and 263-268: KeyError when an abstraction lacks name or
\* primary_responsibility, IndexError when chapter_order names no abstraction
\* or is longer than chapters; TypeError and IndexError in the diagram as in
\* RelationshipContextRaises, without the reads of abstractions.
CombineRaises(p) ==
    LET n == Len(p.abstractions)
        rels == ComponentRelationships(p.relationships)
    IN  \/ LacksFields(p.abstractions, ListingFields)
        \/ rels.tag # "list"
        \/ \E k \in DOMAIN rels.val :
              \/ rels.val[k].tag # "map"
              \/ RelGet(rels.val[k], "from", <<0>>) = <<>>
              \/ /\ RelGet(rels.val[k], "from", <<0>>)[1] < n
                 /\ RelGet(rels.val[k], "to", <<0>>) = <<>>
        \/ \E i \in DOMAIN p.chapter_order :
              \/ p.chapter_order[i] >= n
              \/ p.chapter_order[i] < -n
              \/ i > Len(p.chapters)

\* Lines 191-293: the overview document, the index document and one document
\* per entry of chapter_order are written, in this order.
CombineTutorial_exec ==
    /\ AtExec("combine_tutorial")
    /\ LET p == prep_res[1]
           n == Len(p.abstractions)
       IN  IF CombineRaises(p)
           THEN /\ hist' = Attempted(hist, "combine_tutorial", FALSE, <<>>)
                /\ ExecRaises("combine_tutorial")
           ELSE /\ hist' = [ Attempted(hist, "combine_tutorial", TRUE, <<>>)
                               EXCEPT !.written =
                                  << [ file    |-> OverviewFile,
                                       content |-> p.project_overview ],
                                     [ file    |-> IndexFile,
                                       nodes   |-> n,
                                       edges   |-> DiagramEdges(p.relationships, n),
                                       flows   |-> DataFlowEdges(p.relationships, n) ] >>
                                  \o chapter_files(p.chapter_order, p.abstractions,
                                                   p.chapters) ]
                /\ ExecReturns("combine_tutorial",
                               [output_directory |-> OutputDir(p.project_name)])
    /\ UNCHANGED <<shared, batch>>

\* Lines 295-302.
CombineTutorial_post ==
    /\ AtPost("combine_tutorial")
    /\ shared' = [shared EXCEPT !.final_output_dir = <<exec_res[1].output_directory>>]
    /\ PostReturns("combine_tutorial")
    /\ UNCHANGED <<batch, hist>>

Next ==
    \/ FetchRepo_prep \/ FetchRepo_exec \/ FetchRepo_post
    \/ AnalyzeStructure_prep \/ AnalyzeStructure_exec \/ AnalyzeStructure_post
    \/ IdentifyCore_prep \/ IdentifyCore_exec \/ IdentifyCore_post
    \/ IdentifyAbstractions_prep \/ IdentifyAbstractions_exec
    \/ IdentifyAbstractions_post
    \/ AnalyzeRelationships_prep \/ AnalyzeRelationships_exec
    \/ AnalyzeRelationships_post
    \/ OrderChapters_prep \/ OrderChapters_exec \/ OrderChapters_post
    \/ WriteProjectOverview_prep \/ WriteProjectOverview_exec
    \/ WriteProjectOverview_post
    \/ WriteChapters_prep \/ WriteChapters_exec \/ WriteChapters_post
    \/ CombineTutorial_prep \/ CombineTutorial_exec \/ CombineTutorial_post

Spec == Init /\ [][Next]_vars

----------------------------------------------------------------------------
(* Claims about the pipeline (Spec)                                        *)

\* The stage started last: the one under way, or the one the run ended in.
LastStarted == hist.started[Len(hist.started)]

\* The node's post has just committed: the flow is at its successor, whose
\* prep has not begun.
JustCommitted(node) ==
    /\ hist.started # <<>>
    /\ LastStarted = node
    /\ pc = successor(node)

\* order is a permutation of 0..n-1.
IsPermutation(order, n) ==
    /\ Len(order) = n
    /\ \A k \in 0..(n - 1) : \E i \in DOMAIN order : order[i] = k

\* The same of a list as the service returns it, where an entry is <<i>> for
\* an integer i and <<>> otherwise.
ReturnedIsPermutation(list, n) ==
    /\ Len(list) = n
    /\ \A k \in 0..(n - 1) : \E i \in DOMAIN list : list[i] = <<k>>

\* The list of a response the order stage accepted.
ReturnedOrder == hist.accepted[1].blocks[1].val.chapter_order.val

\* C1: the chapter_order the order stage commits is a permutation of
\* 0..N-1 for N abstractions, and it is the identity order 0..N-1 whenever
\* the list returned by the Reasoning Service is not such a permutation.
C1_OrderIsPermutation ==
    JustCommitted("order_chapters") =>
       LET n == Len(shared.abstractions[1])
           chapter_order == shared.chapter_order[1]
       IN  /\ IsPermutation(chapter_order, n)
           /\ ~ReturnedIsPermutation(ReturnedOrder, n)
              => chapter_order = IdentityOrder(n)

ReasoningStages ==
    { "analyze_structure", "identify_core", "identify_abstractions",
      "analyze_relationships", "order_chapters", "write_project_overview",
      "write_chapters" }

\* The empty or malformed responses of a stage: for the two stages that
\* write documents, an error or an empty text; for the others, also a text
\* without block and a block that is no YAML, empty, or a scalar.
MalformedFor(node) ==
    IF node \in {"write_project_overview", "write_chapters"}
    THEN { LlmError, EmptyText }
    ELSE MalformedResponses

\* C2: a reasoning-backed stage that aborts the run has been attempted
\* exactly its budget of times, and no reasoning-backed stage commits output
\* that comes from an empty or malformed response.
C2_MalformedNeverCommitted ==
    \A node \in ReasoningStages :
       /\ (hist.started # <<>> /\ LastStarted = node /\ pc = "aborted"
              /\ step = "exec")
          => hist.attempts = max_retries(node)
       /\ (JustCommitted(node) /\ hist.accepted # <<>>)
          => hist.accepted[1] \notin MalformedFor(node)

\* The budgets the contract gives the stages.
Budget(node) ==
    CASE node = "fetch_repo"             -> 1
      [] node = "analyze_structure"      -> 3
      [] node = "identify_core"          -> 3
      [] node = "identify_abstractions"  -> 5
      [] node = "analyze_relationships"  -> 5
      [] node = "order_chapters"         -> 5
      [] node = "write_project_overview" -> 3
      [] node = "write_chapters"         -> 5
      [] node = "combine_tutorial"       -> 1

\* C3: a unit of work is attempted at most its stage's budget of times;
\* an attempt after the first starts only when the one before failed; when a
\* unit of work has failed on its last attempt the run is over and no stage
\* is started any more.
C3_RetryBudget ==
    /\ [](hist.started # <<>> =>
            /\ hist.attempts <= Budget(LastStarted)
            /\ (hist.outcome = "failed" /\ hist.attempts = Budget(LastStarted))
               => pc = "aborted")
    /\ [][ /\ (hist.attempts >= 1 /\ hist'.attempts = hist.attempts + 1)
              => hist.outcome = "failed"
           /\ pc = "aborted" => UNCHANGED <<shared, hist, pc, step>> ]_vars

C3_Witness ==
    /\ pc = "aborted"
    /\ LastStarted = "order_chapters"
    /\ hist.attempts = 5
    /\ hist.outcome = "failed"
    /\ shared.chapter_order = <<>>

IsPrefix(s, t) ==
    /\ Len(s) <= Len(t)
    /\ \A i \in DOMAIN s : s[i] = t[i]

\* The context key every stage commits.
OutputKeys ==
    << "files", "structure", "core_files", "abstractions", "relationships",
       "chapter_order", "project_overview", "chapters", "final_output_dir" >>

\* C4: the stages start in the fixed order, none twice and none skipped;
\* when a stage starts, every stage before it has committed its output to
\* the shared context; a completed run has run all nine.
C4_StrictStageOrder ==
    /\ IsPrefix(hist.started, Stages)
    /\ \A k \in DOMAIN hist.started :
          \A j \in 1..(k - 1) : shared[OutputKeys[j]] # <<>>
    /\ \A k \in DOMAIN Stages :
          shared[OutputKeys[k]] # <<>> => k \in DOMAIN hist.started
    /\ pc = "done" => hist.started = Stages /\ shared.final_output_dir # <<>>

C4_Witness ==
    /\ pc = "done"
    /\ hist.started = Stages
    /\ \A k \in DOMAIN OutputKeys : shared[OutputKeys[k]] # <<>>

\* C5: when the Source Provider returns no file, the fetch stage has failed
\* on its one attempt, the run is aborted, files is not in the shared
\* context and no stage but fetch has started.
C5_ZeroFilesAborts ==
    hist.crawled = << <<>> >> =>
       /\ pc = "aborted"
       /\ hist.attempts = 1
       /\ hist.outcome = "failed"
       /\ shared.files = <<>>
       /\ hist.started = << "fetch_repo" >>

C5_Witness ==
    /\ hist.crawled = << <<>> >>
    /\ pc = "aborted"
    /\ hist.started = << "fetch_repo" >>

\* C10: chapters has the length of chapter_order and its i-th element is the
\* text written for abstraction chapter_order[i], in whatever order the
\* items ran and whichever were retried; the i-th chapter document carries
\* chapters[i] under the name of abstraction chapter_order[i].
C10_ChaptersFollowOrder ==
    /\ shared.chapters # <<>> =>
          LET chapters      == shared.chapters[1]
              chapter_order == shared.chapter_order[1]
          IN  /\ Len(chapters) = Len(chapter_order)
              /\ \A i \in DOMAIN chapter_order :
                    chapters[i].abstraction_index = chapter_order[i]
    /\ hist.written # <<>> =>
          LET chapters      == shared.chapters[1]
              chapter_order == shared.chapter_order[1]
          IN  /\ Len(hist.written) = Len(chapter_order) + 2
              /\ \A i \in DOMAIN chapter_order :
                    /\ hist.written[i + 2].abstraction = chapter_order[i]
                    /\ hist.written[i + 2].content = chapters[i]
                    /\ hist.written[i + 2].content.abstraction_index = chapter_order[i]

C10_Witness ==
    /\ pc = "done"
    /\ shared.chapter_order[1] = <<1, 0>>
    /\ batch.completed = <<2, 1>>
    /\ batch.retried
    /\ Len(hist.written) = 4


\* C11: every call of the Reasoning Service made on an attempt after the
\* first disallows cache reuse, and a call that allows it is made on a first
\* attempt of a run whose cache toggle is on.
C11_RetriesBypassCache ==
    hist.cache # <<>> =>
       /\ hist.attempts >= 2 => hist.cache[1] = "bypass"
       /\ hist.cache[1] = "allowed" =>
             hist.attempts = 1 /\ SharedGet("use_cache", TRUE)


\* The stages that parse a structured block out of the response.
ParsingStages ==
    { "analyze_structure", "identify_core", "identify_abstractions",
      "analyze_relationships", "order_chapters" }

\* C12: an attempt of a parsing stage succeeds only on a response that holds
\* exactly one fenced structured block; with no block or with more than one
\* the attempt fails.
C12_ExactlyOneBlock ==
    (/\ hist.started # <<>>
     /\ LastStarted \in ParsingStages
     /\ hist.outcome = "ok"
     /\ hist.accepted # <<>>)
    => Len(hist.accepted[1].blocks) = 1


\* An integer entry <<i>> that is outside 0..n-1.
OutOfRange(idx, n) == idx # <<>> /\ (idx[1] < 0 \/ idx[1] >= n)

\* The accepted core selection names a file index outside the files.
CoreIndexOutOfRange(response, n) ==
    LET items == Parsed(response).val.core_files.val
    IN  \E k \in DOMAIN items :
           HasIndex(items[k]) /\ OutOfRange(items[k].val.index, n)

\* An accepted abstraction names a file index outside the files.
AbstractionFileOutOfRange(response, n) ==
    LET items == Parsed(response).val.abstractions.val
    IN  \E k \in DOMAIN items :
           /\ IsDictWith(items[k], "files")
           /\ \E j \in DOMAIN items[k].val.files :
                 OutOfRange(items[k].val.files[j], n)

\* An accepted relationship or data flow names a component outside the
\* abstractions.
ComponentOutOfRange(response, n) ==
    LET result == Parsed(response).val
        rels   == result.component_relationships.val
        flows  == IF "data_flow" \in DOMAIN result
                  THEN result.data_flow.val ELSE <<>>
    IN  \/ \E k \in DOMAIN rels :
              \/ OutOfRange(RelGet(rels[k], "from", <<0>>), n)
              \/ OutOfRange(RelGet(rels[k], "to", <<0>>), n)
        \/ \E k \in DOMAIN flows :
              \E j \in DOMAIN flows[k].val.components :
                 OutOfRange(flows[k].val.components[j], n)

\* C13: core-select, abstraction-identify and relationship-analyze commit
\* nothing computed from a response that names a file index outside the
\* files or a component index outside the abstractions.
C13_NoOutOfRangeIndexCommitted ==
    /\ JustCommitted("identify_core") =>
          ~CoreIndexOutOfRange(hist.accepted[1], Len(shared.files[1]))
    /\ JustCommitted("identify_abstractions") =>
          ~AbstractionFileOutOfRange(hist.accepted[1], Len(shared.files[1]))
    /\ JustCommitted("analyze_relationships") =>
          ~ComponentOutOfRange(hist.accepted[1], Len(shared.abstractions[1]))


\* The keys the contract requires of each parsing stage's record.
RecordKeys(node) ==
    CASE node = "analyze_structure" ->
            { "architecture", "key_directories", "technology_stack",
              "entry_points", "core_areas" }
      [] node = "identify_core" -> { "core_files" }
      [] node = "identify_abstractions" -> { "abstractions" }
      [] node = "analyze_relationships" ->
            { "summary", "architecture_overview", "component_relationships",
              "data_flow", "api_interfaces" }
      [] node = "order_chapters" -> { "chapter_order" }

\* C14: an attempt of a parsing stage succeeds only when the parsed block is
\* a mapping that holds every required key of the stage's record.
C14_RequiredKeysPresent ==
    (/\ hist.started # <<>>
     /\ LastStarted \in ParsingStages
     /\ hist.outcome = "ok"
     /\ hist.accepted # <<>>)
    => /\ Parsed(hist.accepted[1]).tag = "map"
       /\ RecordKeys(LastStarted) \subseteq DOMAIN Parsed(hist.accepted[1]).val


----------------------------------------------------------------------------
(* One stage run on its own against a given shared context (SpecStage)     *)

\* The context a run has built when stage number k starts: the outputs of
\* the stages before it.
ContextBefore(k) ==
    LET built ==
          [ files            |-> << SourceFiles >>,
            structure        |-> << [ analysis     |-> analyze_file_structure(SourceFiles,
                                                          CHOOSE o \in HashOrders(SourceFiles) : TRUE),
                                      llm_analysis |-> StructureFull ] >>,
            core_files       |-> << <<0, 1>> >>,
            abstractions     |-> << << Abstraction(0), Abstraction(1) >> >>,
            relationships    |-> << RelFull.val >>,
            chapter_order    |-> << <<1, 0>> >>,
            project_overview |-> << "prose" >>,
            chapters         |-> << << [abstraction_index |-> 1, text |-> "prose"],
                                       [abstraction_index |-> 0, text |-> "prose"] >> >>,
            final_output_dir |-> << OutputDir(GivenName) >> ]
    IN  [ key \in {"project_name", "use_cache"} \cup Range(OutputKeys) |->
            IF key = "project_name" THEN << GivenName >>
            ELSE IF key = "use_cache" THEN <<>>
            ELSE IF \E j \in 1..(k - 1) : OutputKeys[j] = key THEN built[key]
            ELSE <<>> ]

\* The keys of a context that are present.
PresentKeys(context) == { key \in DOMAIN context : context[key] # <<>> }

\* Any stage, against the context built before it, whole or with one key
\* taken out.
InitStage ==
    /\ \E k \in DOMAIN Stages :
          /\ pc = Stages[k]
          /\ \E without \in SUBSET PresentKeys(ContextBefore(k)) :
                /\ Cardinality(without) <= 1
                /\ shared = [ key \in DOMAIN ContextBefore(k) |->
                                IF key \in without THEN <<>>
                                ELSE ContextBefore(k)[key] ]
    /\ step = "prep"
    /\ cur_retry = 0
    /\ prep_res = <<>>
    /\ exec_res = <<>>
    /\ batch = NoBatch
    /\ hist = NoHistory
    /\ NoAnalyzerRun
    /\ NoCoreRun

\* node.run(shared): the node's prep, _exec and post, and no successor.
Alone == Len(hist'.started) = 1

NextStage ==
    \/ FetchRepo_prep /\ Alone
    \/ FetchRepo_exec /\ Alone
    \/ FetchRepo_post /\ Alone
    \/ AnalyzeStructure_prep /\ Alone
    \/ AnalyzeStructure_exec /\ Alone
    \/ AnalyzeStructure_post /\ Alone
    \/ IdentifyCore_prep /\ Alone
    \/ IdentifyCore_exec /\ Alone
    \/ IdentifyCore_post /\ Alone
    \/ IdentifyAbstractions_prep /\ Alone
    \/ IdentifyAbstractions_exec /\ Alone
    \/ IdentifyAbstractions_post /\ Alone
    \/ AnalyzeRelationships_prep /\ Alone
    \/ AnalyzeRelationships_exec /\ Alone
    \/ AnalyzeRelationships_post /\ Alone
    \/ OrderChapters_prep /\ Alone
    \/ OrderChapters_exec /\ Alone
    \/ OrderChapters_post /\ Alone
    \/ WriteProjectOverview_prep /\ Alone
    \/ WriteProjectOverview_exec /\ Alone
    \/ WriteProjectOverview_post /\ Alone
    \/ WriteChapters_prep /\ Alone
    \/ WriteChapters_exec /\ Alone
    \/ WriteChapters_post /\ Alone
    \/ CombineTutorial_prep /\ Alone
    \/ CombineTutorial_exec /\ Alone
    \/ CombineTutorial_post /\ Alone

SpecStage == InitStage /\ [][NextStage]_vars

\* The context keys the contract says each stage consumes.
Consumes(node) ==
    CASE node = "analyze_structure"      -> { "files", "project_name" }
      [] node = "identify_core"          -> { "structure", "files" }
      [] node = "identify_abstractions"  -> { "core_files", "files" }
      [] node = "analyze_relationships"  -> { "abstractions" }
      [] node = "order_chapters"         -> { "abstractions", "relationships" }
      [] node = "write_project_overview" -> { "abstractions", "relationships" }
      [] node = "write_chapters"         -> { "chapter_order", "abstractions",
                                              "relationships", "files" }
      [] node = "combine_tutorial"       -> { "abstractions", "relationships",
                                              "chapter_order", "chapters" }
      [] OTHER                           -> {}

\* C15: a stage started on a context that lacks a key it consumes fails
\* before its unit of work is attempted and leaves the context as it was.
C15_MissingKeyFailsInPrep ==
    (/\ hist.started # <<>>
     /\ \E key \in Consumes(LastStarted) : hist.context[1][key] = <<>>)
    => /\ pc = "aborted"
       /\ hist.attempts = 0
       /\ shared = hist.context[1]


----------------------------------------------------------------------------
(* Termination of the pipeline (SpecLive)                                  *)

\* Every call of the Source Provider and of the Reasoning Service returns
\* and the interpreter goes on: a step that can be taken is taken.
SpecLive == Init /\ [][Next]_vars /\ WF_vars(Next)

\* The run is over: all nine stages completed, or aborted at a stage.
Halted ==
    \/ pc = "done" /\ hist.started = Stages
    \/ pc = "aborted" /\ hist.started # <<>>

\* C16: the run ends, completed or aborted; it stops in no other state; once
\* aborted, no prep, no unit of work and no write of the context follows.
C16_RunTerminates ==
    /\ <>[]Halted
    /\ [](pc \in {"done", "aborted"} \/ ENABLED Next)
    /\ [](pc = "done" => Halted)
    /\ [][pc = "aborted" => UNCHANGED <<shared, hist, pc, step>>]_vars

C16_Witness ==
    /\ pc = "aborted"
    /\ LastStarted = "write_chapters"
    /\ \E i \in DOMAIN batch.results : batch.results[i] # <<>>
    /\ shared.chapters = <<>>


\* The chapter documents of a completed run, after the overview and the
\* index.
ChapterDocuments == SubSeq(hist.written, 3, Len(hist.written))

\* C17: a completed run has produced exactly one chapter document per
\* abstraction; the document at position i of chapter_order has the numeric
\* prefix i+1 and holds the text written for abstraction chapter_order[i].
C17_OneDocumentPerAbstraction ==
    (pc = "done" /\ hist.written # <<>>) =>
        LET n             == Len(shared.abstractions[1])
            chapter_order == shared.chapter_order[1]
            docs          == ChapterDocuments
        IN  /\ Len(docs) = n
            /\ \A a \in 0..(n - 1) :
                  Cardinality({ i \in DOMAIN docs : docs[i].abstraction = a }) = 1
            /\ \A i \in DOMAIN docs :
                  /\ i <= Len(chapter_order)
                  /\ SubSeq(docs[i].file, 1, 2) = TwoDigits(i)
                  /\ docs[i].abstraction = chapter_order[i]
                  /\ docs[i].content.abstraction_index = chapter_order[i]


----------------------------------------------------------------------------
(* SpecFacts: analyze_file_structure applied to Python files whose         *)
(* contents the precise parser accepts or rejects                          *)

\* Line 120: ast.parse(content) returns a tree, or raises; besides
\* SyntaxError (and its subclasses IndentationError and TabError) the parser
\* reports MemoryError on a too deeply nested expression.
ParseOutcomes == { "ok", "SyntaxError", "MemoryError" }

\* Lines 117-141: the imports and the main marker analyze_python_file leaves
\* in file_info. ast.parse raises before anything is added to file_info, so
\* the fallback starts from the empty facts; only SyntaxError is caught, any
\* other exception leaves the function.
analyze_python_file(content) ==
    CASE content.parse = "ok" ->
            [ raised |-> <<>>, imports |-> content.precise.imports,
              main |-> content.precise.main ]
      [] content.parse = "SyntaxError" ->
            [ raised |-> <<>>, imports |-> content.pattern.imports,
              main |-> content.pattern.main ]
      [] OTHER ->
            [ raised |-> <<content.parse>>, imports |-> {}, main |-> FALSE ]

\* What the extraction finds in a content: size, imports, main marker.
Extracted(content) ==
    LET found == analyze_python_file(content)
    IN  [ size |-> content.size, imports |-> found.imports, main |-> found.main ]

\* Lines 34-36: the first file, in insertion order, whose analysis raises.
RECURSIVE FirstRaised(_)
FirstRaised(fs) ==
    IF fs = <<>> THEN <<>>
    ELSE LET found == analyze_python_file(fs[1][2])
         IN  IF detect_language(fs[1][1]) = "python" /\ found.raised # <<>>
             THEN found.raised
             ELSE FirstRaised(Tail(fs))

P_setup == <<"s", "e", "t", "u", "p", ".", "p", "y">>      \* setup.py

\* What a path of extraction can find in a content.
FoundPool == { [imports |-> {}, main |-> FALSE], [imports |-> {N_b}, main |-> TRUE] }

\* Contents: the facts the precise walk gives and the facts the patterns
\* give, which need not agree.
SourceContents ==
    [ size : {10}, parse : ParseOutcomes, precise : FoundPool, pattern : FoundPool ]

FactPaths == { P_a, P_da, P_setup }

\* The number of files of an input mapping.
MaxInputFiles == 2

FactPathLists == UNION { InjSeqs(FactPaths, n) : n \in 1..MaxInputFiles }

FactInputs ==
    UNION { { [i \in DOMAIN ps |-> <<ps[i], cs[i]>>] :
                cs \in [DOMAIN ps -> SourceContents] } : ps \in FactPathLists }

InitFacts ==
    /\ files \in FactInputs
    /\ structure1 = <<>>
    /\ structure2 = <<>>
    /\ NoCoreRun
    /\ NoFlowRun

\* Lines 7-62: one call of analyze_file_structure; an exception raised while
\* a file is analysed leaves the call, no facts are returned.
AnalyzeSources ==
    /\ structure1 = <<>>
    /\ LET raised == FirstRaised(files)
           fs     == [i \in DOMAIN files |-> <<files[i][1], Extracted(files[i][2])>>]
       IN  IF raised # <<>>
           THEN structure1' = << [raised |-> raised[1]] >>
           ELSE \E order \in HashOrders(fs) :
                   structure1' = << analyze_file_structure(fs, order) >>
    /\ UNCHANGED <<files, structure2, coreVars, flowVars>>

NextFacts == AnalyzeSources

SpecFacts == InitFacts /\ [][NextFacts]_vars

Returned == structure1 # <<>> /\ "raised" \notin DOMAIN structure1[1]

\* C18: the analyzer raises for no content; a file the precise parser
\* rejects, with whatever failure, gets the facts of the pattern-matching
\* extraction and nothing of the precise path, and the result holds the facts
\* of every file.
C18_NeverRaisesOnContent ==
    structure1 # <<>> =>
        /\ Returned
        /\ Len(structure1[1].file_info) = Len(files)
        /\ \A i \in DOMAIN files :
              files[i][2].parse # "ok" =>
                 /\ structure1[1].file_info[i][2].imports = files[i][2].pattern.imports
                 /\ structure1[1].file_info[i][2].has_main = files[i][2].pattern.main


\* C19: when the run aborts at a stage, the shared context equals the
\* context the stage started on: the failed stage added, removed and changed
\* no key.
C19_FailedStageLeavesContext ==
    (pc = "aborted" /\ hist.started # <<>>) => shared = hist.context[1]


----------------------------------------------------------------------------
(* SpecEntry: the analyzer applied to files with entry-point names         *)

P_Main  == <<"M", "a", "i", "n", ".", "p", "y">>                      \* Main.py
P_seTup == <<"s", "e", "T", "u", "p", ".", "p", "y">>                 \* seTup.py
P_init  == <<"d", "/", "_", "_", "i", "n", "i", "t", "_", "_", ".", "p", "y">>

EntryPaths == { P_a, P_Main, P_setup, P_seTup, P_init }

\* Sizes at and above the threshold of line 274, with and without main.
EntryContents == [ size : {MinSetupSize, MinSetupSize + 1}, imports : {{}},
                   main : BOOLEAN ]

EntryPathLists == UNION { InjSeqs(EntryPaths, n) : n \in 1..MaxInputFiles }

EntryInputs ==
    UNION { { [i \in DOMAIN ps |-> <<ps[i], cs[i]>>] :
                cs \in [DOMAIN ps -> EntryContents] } : ps \in EntryPathLists }

InitEntry ==
    /\ files \in EntryInputs
    /\ structure1 = <<>>
    /\ structure2 = <<>>
    /\ NoCoreRun
    /\ NoFlowRun

SpecEntry == InitEntry /\ [][NextAnalyze]_vars

InitName == <<"_", "_", "i", "n", "i", "t", "_", "_", ".", "p", "y">>

EntryFacts(path) == DictGet(structure1[1].file_info, path)

\* The files that qualify as the claim states it.
C20_QualifiesAsStated(path) ==
    \/ EntryFacts(path).has_main
    \/ Lower(basename(path)) \in EntryNames
    \/ basename(path) = InitName /\ EntryFacts(path).size > 100

\* The files that qualify: setup.py counts as __init__.py does, and both
\* names are compared lower-cased.
C20_Qualifies(path) ==
    \/ EntryFacts(path).has_main
    \/ Lower(basename(path)) \in EntryNames
    \/ Lower(basename(path)) \in { InitName, P_setup } /\ EntryFacts(path).size > 100

\* C20 as stated: the entry-point list holds exactly the files with the
\* entry marker, or a canonical entry filename (lower-cased basename), or the
\* basename __init__.py and a size above 100, each once, in insertion order.
C20_Original ==
    structure1 # <<>> =>
        structure1[1].entry_points = SelectSeq(DictKeys(files), C20_QualifiesAsStated)

\* C20 amended: the entry-point list holds exactly the files with the entry
\* marker, or whose lower-cased basename is a canonical entry filename, or
\* whose lower-cased basename is setup.py or __init__.py with a size above
\* 100, each once, in insertion order.
C20_EntryPoints ==
    structure1 # <<>> =>
        structure1[1].entry_points = SelectSeq(DictKeys(files), C20_Qualifies)

\* C20 witness: seTup.py of size 101 without main is listed after Main.py,
\* which has a main marker and a canonical name.
C20_Witness ==
    /\ structure1 # <<>>
    /\ DictKeys(files) = <<P_Main, P_seTup>>
    /\ files[1][2].main
    /\ ~files[2][2].main /\ files[2][2].size = MinSetupSize + 1
    /\ structure1[1].entry_points = <<P_Main, P_seTup>>


\* The run aborted in the fan-out of write_chapters, in an item's unit of
\* work.
ItemFailed ==
    /\ pc = "aborted"
    /\ LastStarted = "write_chapters"
    /\ hist.attempts > 0

\* C21: an item of the chapter fan-out is attempted at most 5 times, counted
\* for the item alone; the run aborts in the fan-out only when an item has
\* failed on all 5 of its attempts, whatever the other items used, and then
\* combine_tutorial never starts and the key chapters is never written,
\* whatever results other items have returned.
C21_ItemBudget ==
    /\ (hist.started # <<>> /\ LastStarted = "write_chapters") =>
          /\ hist.attempts <= 5
          /\ (pc = "write_chapters" /\ step = "exec" /\ batch.item # 0) =>
                hist.attempts = cur_retry /\ hist.outcome = "failed"
    /\ ItemFailed =>
          /\ hist.attempts = 5
          /\ hist.outcome = "failed"
          /\ batch.item # 0 /\ batch.results[batch.item] = <<>>
          /\ shared.chapters = <<>>
          /\ shared.final_output_dir = <<>>
          /\ hist.written = <<>>
    /\ (pc = "aborted" /\ shared.chapters = <<>>) =>
          \A k \in DOMAIN hist.started : hist.started[k] # "combine_tutorial"

\* C21 witness: an item returned its text after a failed attempt, then
\* another item failed on all its 5 attempts and the run aborted.
C21_Witness ==
    /\ ItemFailed
    /\ hist.attempts = 5
    /\ batch.retried
    /\ batch.completed # <<>>
    /\ shared.chapters = <<>>


\* C22: a committed chapter_order holds only indices of abstractions, and is
\* not empty when there are abstractions; the stages that look up
\* abstractions[order_idx] (write_chapters, combine_tutorial) get only such
\* entries, so no lookup is outside the abstractions.
C22_OrderInRange ==
    /\ shared.chapter_order # <<>> =>
          LET n == Len(shared.abstractions[1])
              chapter_order == shared.chapter_order[1]
          IN  /\ \A i \in DOMAIN chapter_order : chapter_order[i] \in 0..(n - 1)
              /\ n > 0 => chapter_order # <<>>
    /\ (pc = "write_chapters" /\ hist.started # <<>> /\ LastStarted = "write_chapters") =>
          ~ (\E i \in DOMAIN shared.chapter_order[1] :
                \/ shared.chapter_order[1][i] >= Len(shared.abstractions[1])
                \/ shared.chapter_order[1][i] < 0)
    /\ (pc = "combine_tutorial" /\ step = "exec") =>
          \A i \in DOMAIN prep_res[1].chapter_order :
             prep_res[1].chapter_order[i] + 1 \in DOMAIN prep_res[1].abstractions

\* C22 witness: the response listed an entry outside the 2 abstractions, or
\* no valid entry at all; the order [0, 1] was committed and the chapter
\* stage looked its abstractions up.
C22_Witness ==
    /\ hist.started # <<>> /\ LastStarted = "write_chapters"
    /\ step = "exec"
    /\ Len(shared.abstractions[1]) = 2
    /\ shared.chapter_order[1] = <<0, 1>>
    /\ Len(prep_res[1]) = 2


\* The index document of a run that wrote its documents.
IndexDocument == hist.written[2]

\* C23: every edge drawn in the component diagram and in the data-flow
\* diagram of the index document joins two of the nodes A0 .. A{N-1}.
C23_EdgesJoinNodes ==
    hist.written # <<>> =>
        LET n == IndexDocument.nodes
        IN  /\ \A k \in DOMAIN IndexDocument.edges :
                  /\ IndexDocument.edges[k][1] \in 0..(n - 1)
                  /\ IndexDocument.edges[k][2] \in 0..(n - 1)
            /\ \A f \in DOMAIN IndexDocument.flows :
                  \A e \in IndexDocument.flows[f] :
                     e[2] \in 0..(n - 1) /\ e[3] \in 0..(n - 1)


----------------------------------------------------------------------------
(* Resolution of import names (SpecAnalyze)                                *)

\* The input files that yield name as a candidate module name.
Candidates(name) == { p \in InputPaths : name \in SynthNames(p) }

\* The position of a path in the input's iteration order.
PositionOf(path) == CHOOSE i \in DOMAIN files : files[i][1] = path

\* Among the candidates of name, the file that comes last in that order.
LastCandidate(name) ==
    CHOOSE p \in Candidates(name) :
        \A q \in Candidates(name) : PositionOf(q) <= PositionOf(p)

\* The targets of a file as the claim gives them: for each recorded import
\* that is a candidate name, the last file yielding it, the file itself
\* left out.
ClaimedTargets(path) ==
    { LastCandidate(name) :
        name \in { i \in RecordedImports(path) : Candidates(i) # {} } } \ {path}

EdgesOf(g, path) == IF HasKey(g, path) THEN DictGet(g, path) ELSE {}

\* C24: an import name shared by several files resolves to the one that
\* comes last in input iteration order; a file importing it gets an edge to
\* that file only, that file itself gets none for it; so a file has no more
\* edges than recorded imports.
C24_NameResolvesToLastFile ==
    structure1 # <<>> =>
        \A path \in InputPaths :
            /\ EdgesOf(Graph1, path) = ClaimedTargets(path)
            /\ Cardinality(EdgesOf(Graph1, path)) <= Cardinality(RecordedImports(path))
            /\ \A name \in RecordedImports(path) :
                  (Candidates(name) # {} /\ LastCandidate(name) = path
                   /\ RecordedImports(path) = {name})
                  => ~HasKey(Graph1, path)

\* C24 witness: a.py and d/a.py both yield the name "a", d/a.py coming
\* last; d.a.py imports "a" and depends on d/a.py only, d/a.py imports "a"
\* and depends on nothing.
C24_Witness ==
    /\ structure1 # <<>>
    /\ DictKeys(files) = <<P_a, P_da, P_d_a>>
    /\ RecordedImports(P_d_a) = {N_a}
    /\ RecordedImports(P_da) = {N_a}
    /\ EdgesOf(Graph1, P_d_a) = {P_da}
    /\ ~HasKey(Graph1, P_da)


\* C25: the documents of one run have pairwise distinct file names: no two
\* chapter documents share a name, and none has the name of the overview or
\* of the index.
C25_DistinctFilenames ==
    hist.written # <<>> =>
        /\ \A i, j \in DOMAIN hist.written :
              i # j => hist.written[i].file # hist.written[j].file
        /\ \A i \in DOMAIN ChapterDocuments :
              ChapterDocuments[i].file \notin { OverviewFile, IndexFile }

\* C25 witness: chapter_order [0, 0, 1] names abstraction 0 twice, and the
\* names of abstractions 0 and 1 differ but sanitize to the same string; the
\* three chapter documents were written.
C25_Witness ==
    /\ hist.written # <<>>
    /\ shared.chapter_order[1] = <<0, 0, 1>>
    /\ Len(ChapterDocuments) = 3
    /\ shared.abstractions[1][1].val.name # shared.abstractions[1][2].val.name
    /\ Sanitize(Lower(shared.abstractions[1][1].val.name))
          = Sanitize(Lower(shared.abstractions[1][2].val.name))

============================================================================
